---- MODULE Spec2Model ----
(***************************************************************************)
(* A model of the Goon single-page application: the AppState object, the  *)
(* timer and metronome engine, the content pipeline, the subreddit         *)
(* registry and the settings storage layer, with the browser facilities    *)
(* they use (interval and timeout tasks, localStorage, sessionStorage, the *)
(* query string, the named external window) and the remote settings store. *)
(*                                                                         *)
(* Every handler of the program is a function from worlds to worlds (a     *)
(* world is the record of all state variables); an action applies one      *)
(* handler to the current world with its inputs drawn from small sets.     *)
(* A handler that awaits a network response is cut at the await.           *)
(*                                                                         *)
(* Value conventions.  Numbers of the program are integers; Undef (-1)     *)
(* stands for the JavaScript value undefined in a numeric field and Empty  *)
(* (-2) for the empty string of a number input left blank.  The volume is  *)
(* counted in tenths (7 is 0.7).  A JSON object is a record whose DOMAIN   *)
(* holds the keys that are present.  Arrays of folder names are sets.      *)
(***************************************************************************)
EXTENDS Integers, Sequences, FiniteSets, TLC

VARIABLES
    AppState,       \* the process-wide state object of core.js
    localStorage,   \* goonAppSettings, soundEnabled, contentSource, theme
    sessionStorage, \* contentSource
    location,       \* the contentSource parameter of the query string
    tasks,          \* the browser's interval and timeout tasks
    net,            \* requests awaiting their response
    extWindow,      \* the browser window named 'externalContent'
    server,         \* the remote settings store
    ui,             \* what the page shows: error toast, start button
    pc,             \* position of the page: boot, loading, loaded, ready
    event,          \* what the last handler did (observation only)
    lastSave        \* AppState at the last call of saveToStorage (observation only)

vars == <<AppState, localStorage, sessionStorage, location, tasks, net,
          extWindow, server, ui, pc, event, lastSave>>

World == [AppState |-> AppState, localStorage |-> localStorage,
          sessionStorage |-> sessionStorage, location |-> location,
          tasks |-> tasks, net |-> net, extWindow |-> extWindow,
          server |-> server, ui |-> ui, pc |-> pc, event |-> event,
          lastSave |-> lastSave]

Commit(w) ==
    /\ AppState' = w.AppState
    /\ localStorage' = w.localStorage
    /\ sessionStorage' = w.sessionStorage
    /\ location' = w.location
    /\ tasks' = w.tasks
    /\ net' = w.net
    /\ extWindow' = w.extWindow
    /\ server' = w.server
    /\ ui' = w.ui
    /\ pc' = w.pc
    /\ event' = w.event
    /\ lastSave' = w.lastSave

-----------------------------------------------------------------------------
(* Bounds of the model *)

MaxHandles == 2      \* handles of interval tasks that can be alive at once
MaxInflight == 2     \* /get_content requests awaiting a response
MaxSaves == 1        \* /save_settings requests awaiting a response
MaxRetries == 1      \* pending 2-second retry timeouts
MaxOpens == 1        \* pending 500 ms window-open timeouts
MaxClock == 2        \* history entries created in a run of Spec
MaxHistoryClock == 22 \* history entries created in a run of SpecHistory
MaxRenders == 4      \* history entries created in a run of SpecGallery
MaxLoads == 2        \* page loads in a run of SpecStorage
FixedRange == 10     \* timerMin = timerMax of the fixed-range settings
\* the number of completions counted before the Finish button is left alone
MaxFinishes == 2
MaxShown == 1        \* payloads displayed in a run of SpecClassify
WideMax == 4         \* the largest timerMax typed in a run of SpecSpeed

(* Constants of the program *)

historyMaxSize == 20
DefaultTimerMin == 30
DefaultTimerMax == 120
DefaultCycleSeconds == 60
DefaultUserAgent == "Goon/1.0"
DefaultSpeed == 60
DefaultVolume == 7
MinBPM == 40
MaxBPM == 120
RandomBPMRange == 80

Undef == 0 - 1                 \* undefined, in a numeric field
NoHandle == 0                  \* null, in a task handle
PosInfinity == 1000 * 1000     \* the floating point value Infinity
NotANumber == 0 - PosInfinity  \* NaN and -Infinity: both fail every validity test

\* the value of a number input that was left blank (the empty string)
Empty == 0 - 2
NULL == "null"
UNDEF == "undefined"

-----------------------------------------------------------------------------
(* JavaScript idioms *)

\* x || d on a number
OrElse(x, d) ==
    IF x = 0 \/ x = Undef \/ x = NotANumber \/ x = Empty THEN d ELSE x

\* parseInt(x) || d
ParseIntOr(x, d) == OrElse(x, d)

Min2(a, b) == IF a <= b THEN a ELSE b

\* floor(a / b) for b # 0
FloorDiv(a, b) == IF b > 0 THEN a \div b ELSE (0 - a) \div (0 - b)

\* the values of Math.floor(Math.random() * (maxT - minT + 1)) + minT
RandomDuration(minT, maxT) ==
    IF maxT - minT + 1 > 0 THEN minT .. maxT ELSE (maxT + 1) .. minT

\* the values of Math.floor(Math.random() * 80) + 40, at the two ends
RandomSpeeds == {MinBPM, MinBPM + RandomBPMRange - 1}

-----------------------------------------------------------------------------
(* Content payloads of /get_content *)

\* A URL or a file name is the sequence of the pieces the program tests for
\* or replaces (scheme, host, path, extension, "?", query parameters); the
\* empty sequence is a field that is absent or empty.  Extensions are in
\* lower case.
ImageExts == {".jpg", ".jpeg", ".png", ".gif", ".webp"}
VideoExts == {".mp4", ".webm", ".mov"}

\* String.includes, String.endsWith (one of several pieces)
Includes(url, piece) == \E i \in DOMAIN url : url[i] = piece
EndsWith(url, pieces) == url # <<>> /\ url[Len(url)] \in pieces

\* String.replace(old, new): the first occurrence
ReplaceFirst(url, old, new) ==
    IF Includes(url, old)
    THEN LET i == CHOOSE k \in DOMAIN url :
                      url[k] = old /\ \A m \in 1 .. (k - 1) : url[m] # old
         IN [url EXCEPT ![i] = new]
    ELSE url

\* String.replace(/old/g, new): every occurrence
ReplaceAll(url, old, new) ==
    [k \in DOMAIN url |-> IF url[k] = old THEN new ELSE url[k]]

\* String.split('?')[0]
BeforeQuery(url) ==
    IF Includes(url, "?")
    THEN LET i == CHOOSE k \in DOMAIN url :
                      url[k] = "?" /\ \A m \in 1 .. (k - 1) : url[m] # "?"
         IN SubSeq(url, 1, i - 1)
    ELSE url

Url(host, ext, query) == <<"https://", host, "/x">> \o ext \o query

ExtPieces(ext) ==
    IF ext = "img" THEN <<".jpg">> ELSE IF ext = "vid" THEN <<".mp4">> ELSE <<>>

\* A payload of the kinds the server sends: the URL field it carries, the
\* class of the extension, whether the host is a Reddit CDN host, whether
\* gallery_images holds two URLs, the content identifier, and the optional
\* suggestions (0 when absent).  Custom content carries its file name.
Payload(field, ext, cdn, gal, id, secs, bpm, pun) ==
    LET u == Url(IF cdn THEN "i.redd.it" ELSE "example.com", ExtPieces(ext), <<>>)
    IN [content_url |-> IF field = "content_url" THEN u ELSE <<>>,
        file_name |-> IF field = "content_url"
                      THEN <<"x">> \o ExtPieces(ext) ELSE <<>>,
        post_url |-> IF field = "post_url" THEN u ELSE <<>>,
        url |-> IF field = "url" THEN u ELSE <<>>,
        gallery_images |-> IF gal THEN <<u, u>> ELSE <<>>,
        is_gallery |-> gal, type |-> UNDEF,
        id |-> id, timer_seconds |-> secs, metronome_speed |-> bpm,
        isPunishment |-> pun]

NullContent == Payload("null", "other", FALSE, FALSE, 0, 0, 0, FALSE)

IsGallery(data) == Len(data.gallery_images) > 1

\* the type given by an extension (the last piece), or the given default
ByExtension(name, otherwise) ==
    IF EndsWith(name, ImageExts) THEN "image"
    ELSE IF EndsWith(name, VideoExts) THEN "video"
    ELSE otherwise

\* a classification that takes a payload for a gallery only if it is flagged
ClassifyFlagged(data) ==
    IF IsGallery(data) /\ data.is_gallery
    THEN [type |-> "image", url |-> data.gallery_images[1]]
    ELSE [type |-> "unknown", url |-> <<>>]

\* displayContent: the content type and the content URL of a payload
Classify(data) ==
    IF IsGallery(data)
    THEN [type |-> "image",
          url |-> IF data.post_url # <<>> THEN data.post_url
                  ELSE data.gallery_images[1]]
    ELSE IF data.content_url # <<>>
    THEN [type |-> ByExtension(data.file_name, "unknown"),
          url |-> data.content_url]
    ELSE IF data.post_url # <<>>
    THEN [type |-> ByExtension(data.post_url, "external"),
          url |-> data.post_url]
    ELSE IF data.url # <<>>
    THEN [type |-> ByExtension(data.url,
                       IF data.type # UNDEF THEN data.type ELSE "external"),
          url |-> data.url]
    ELSE [type |-> "unknown", url |-> <<>>]

ContentType(p) == Classify(p).type

\* displayContent: the branch that renders a content type; every type other
\* than image, video and external is shown as the JSON text of the payload
Renderer(type) ==
    IF type \in {"image", "video", "external"} THEN type ELSE "json"

IsRedditContent(url) ==
    Includes(url, "i.redd.it") \/ Includes(url, "preview.redd.it")

\* an image URL that is used as it is
SameUrl(contentUrl) == contentUrl

\* displayContent, single image: the URL assigned to img.src
ImageSrc(contentUrl) ==
    IF ~IsRedditContent(contentUrl) THEN contentUrl
    ELSE LET decoded == ReplaceAll(contentUrl, "&amp;", "&")
             base == BeforeQuery(decoded)
             direct ==
                 IF Includes(decoded, "preview.redd.it")
                 THEN ReplaceFirst(
                          IF EndsWith(base, {".webp"})
                          THEN [base EXCEPT ![Len(base)] = ".jpg"] ELSE base,
                          "preview.redd.it", "i.redd.it")
                 ELSE IF \/ EndsWith(decoded, {".webp"})
                         \/ Includes(decoded, "format=pjpg")
                         \/ Includes(decoded, "format=webp")
                 THEN ReplaceFirst(
                          ReplaceFirst(
                              ReplaceFirst(decoded, ".webp", ".jpg"),
                              "format=pjpg", "format=jpg"),
                          "format=webp", "format=jpg")
                 ELSE decoded
         IN IF Includes(direct, "?") THEN direct
            ELSE direct \o <<"?", "bypass=cors">>

HasContentId(p) ==
    p.content_url # <<>> \/ p.post_url # <<>> \/ p.url # <<>>

-----------------------------------------------------------------------------
(* UI helpers (ui.js) *)

\* what a handler did: the countdown ran out, startBrowsing was called, a
\* request for content was issued, saveToStorage was called, the remote store
\* answered, an error toast was shown, a live countdown was cancelled, the
\* list and the normalised name addSubreddit was called with, the candidates
\* loadFromStorage resolved the content source from
NoEvent == [expired |-> FALSE, browse |-> FALSE, requested |-> FALSE,
            saved |-> FALSE, remote |-> "none", error |-> "none",
            cancelled |-> FALSE, played |-> FALSE, stale |-> FALSE,
            resolved |-> "none",
            add |-> [type |-> "none", name |-> <<>>],
            candidates |-> [url |-> "", session |-> "null",
                            settings |-> "undefined"]]

Begin(w) == [w EXCEPT !.event = NoEvent]

showLoading(w) == [w EXCEPT !.AppState.content.isLoading = TRUE]

\* a showError that also schedules a retry
showErrorAndRetry(w, message) ==
    [w EXCEPT !.event.error = message, !.tasks.retries = @ + 1]

showError(w, message) ==
    [w EXCEPT !.event.error = message,
              !.ui.startButton =
                  IF @ = "Loading..." THEN "Start Browsing" ELSE @,
              !.AppState.content.isLoading = FALSE]

\* updateAutoCycleUI: with auto-cycle disabled it cancels the recorded countdown
updateAutoCycleUI(w) ==
    IF ~w.AppState.settings.autoCycleEnabled
       /\ w.AppState.timer.interval # NoHandle
    THEN [w EXCEPT !.tasks.countdown = @ \ {w.AppState.timer.interval},
                   !.AppState.timer.interval = NoHandle]
    ELSE w

-----------------------------------------------------------------------------
(* Storage: saveToStorage (storage.js) *)

Absent == [state |-> "absent", value |-> [k \in {} |-> 0]]
Malformed == [state |-> "malformed", value |-> [k \in {} |-> 0]]
Json(obj) == [state |-> "json", value |-> obj]

Has(obj, k) == k \in DOMAIN obj

\* JSON.stringify followed by JSON.parse: a key whose value is undefined is
\* dropped (only autoCycleInterval can be undefined in the saved object)
Stringify(obj) ==
    [k \in {j \in DOMAIN obj : ~(j = "autoCycleInterval" /\ obj[j] = Undef)}
        |-> obj[k]]

\* the settings object that saveToStorage builds from AppState
SettingsObject(w) ==
    LET st == w.AppState.settings
    IN [favorites |-> w.AppState.subreddits.favorites,
        punishments |-> w.AppState.subreddits.punishments,
        contentSource |->
            IF st.contentSource # UNDEF THEN st.contentSource
            ELSE IF w.sessionStorage.contentSource # NULL
                 THEN w.sessionStorage.contentSource
            ELSE "reddit",
        punishmentsEnabled |-> st.punishmentsEnabled,
        autoCycleEnabled |-> st.autoCycleEnabled,
        autoCycleInterval |-> st.autoCycleInterval,
        videoTimerSoftLimitEnabled |-> st.videoTimerSoftLimitEnabled,
        theme |-> st.theme,
        timerMin |-> OrElse(st.timerMin, DefaultTimerMin),
        timerMax |-> OrElse(st.timerMax, DefaultTimerMax),
        soundEnabled |-> (w.localStorage.soundEnabled # "false"),
        metronomeVolume |-> OrElse(st.metronomeVolume, DefaultVolume),
        redditCredentials |-> st.redditCredentials,
        stats |-> w.AppState.stats,
        enabledContentFolders |-> w.AppState.folders.enabledContentFolders,
        enabledPunishmentFolders |-> w.AppState.folders.enabledPunishmentFolders]

\* the persisted fields of AppState
Persisted(app) ==
    [favorites |-> app.subreddits.favorites,
     punishments |-> app.subreddits.punishments,
     contentSource |-> app.settings.contentSource,
     punishmentsEnabled |-> app.settings.punishmentsEnabled,
     autoCycleEnabled |-> app.settings.autoCycleEnabled,
     autoCycleInterval |-> app.settings.autoCycleInterval,
     timerMin |-> app.settings.timerMin,
     timerMax |-> app.settings.timerMax,
     soundEnabled |-> app.settings.soundEnabled,
     metronomeVolume |-> app.settings.metronomeVolume,
     theme |-> app.settings.theme,
     stats |-> app.stats,
     enabledContentFolders |-> app.folders.enabledContentFolders,
     enabledPunishmentFolders |-> app.folders.enabledPunishmentFolders]

\* a saveToStorage that only issues the request
saveRemoteOnly(w, then) ==
    [w EXCEPT
       !.net.saves = Append(@, [body |-> Stringify(SettingsObject(w)),
                                then |-> then,
                                localOk |-> ~w.localStorage.full]),
       !.event.saved = TRUE,
       !.lastSave = [called |-> TRUE, localOk |-> ~w.localStorage.full,
                     app |-> Persisted(w.AppState), remote |-> "pending"]]

\* The synchronous part of saveToStorage, up to the await of the fetch of
\* /save_settings.  localStorage.setItem throws when the storage is full; the
\* exception is caught and logged.  then: what the caller does once the
\* returned promise resolves.
saveToStorage(w, then) ==
    LET obj == SettingsObject(w)
        localOk == ~w.localStorage.full
    IN [w EXCEPT
         !.AppState.settings.enabledContentFolders = obj.enabledContentFolders,
         !.AppState.settings.enabledPunishmentFolders = obj.enabledPunishmentFolders,
         !.localStorage.goonAppSettings =
             IF localOk THEN Json(Stringify(obj)) ELSE @,
         !.net.saves = Append(@, [body |-> Stringify(obj), then |-> then,
                                  localOk |-> localOk]),
         !.event.saved = TRUE,
         !.lastSave = [called |-> TRUE, localOk |-> localOk,
                       app |-> Persisted(w.AppState), remote |-> "pending"]]

-----------------------------------------------------------------------------
(* Timer and metronome engine (timer.js) *)

\* the smallest handle that names no task of the set
NewHandle(used) ==
    CHOOSE h \in 1 .. (Cardinality(used) + 1) :
        h \notin used /\ \A k \in 1 .. (h - 1) : k \in used

Falsy(n) == n = 0 \/ n = Undef \/ n = NotANumber \/ n = Empty

\* a BPM that grows with the duration
DirectSpeed(seconds, minTime, maxTime) ==
    LET timeRange == maxTime - minTime
    IN IF timeRange = 0 THEN NotANumber
       ELSE MinBPM + FloorDiv((MaxBPM - MinBPM) * (seconds - minTime), timeRange)

\* startTimer: the BPM derived from the duration
DerivedSpeed(seconds, minTime, maxTime) ==
    LET timeRange == maxTime - minTime
    IN IF timeRange = 0
       THEN (IF seconds - minTime < 0 THEN PosInfinity ELSE NotANumber)
       ELSE MinBPM + FloorDiv((MaxBPM - MinBPM) * (maxTime - seconds), timeRange)

\* the durations the random picker can return under the current settings
Durations(w) ==
    RandomDuration(ParseIntOr(w.AppState.settings.timerMin, DefaultTimerMin),
                   ParseIntOr(w.AppState.settings.timerMax, DefaultTimerMax))

\* a startMetronome that does not cancel the recorded task
startMetronomeUncancelled(w, speed, rb) ==
    LET h == NewHandle(w.tasks.metronome)
    IN [w EXCEPT
          !.AppState.metronome.speed =
              IF Falsy(speed) \/ speed <= 0 THEN rb ELSE speed,
          !.AppState.metronome.interval = h,
          !.tasks.metronome = @ \cup {h}]

\* startMetronome(speed); rb is the random BPM used when speed is invalid
startMetronome(w, speed, rb) ==
    LET sp == IF Falsy(speed) \/ speed <= 0 THEN rb ELSE speed
        old == w.AppState.metronome.interval
        alive == w.tasks.metronome \ {old}
        h == NewHandle(alive)
    IN [w EXCEPT !.AppState.metronome.speed = sp,
                 !.AppState.metronome.interval = h,
                 !.tasks.metronome = alive \cup {h}]

\* a tick that consults the metronome's own flag only
tickOwnFlag(w, h) ==
    IF ~w.AppState.timer.isPaused /\ w.AppState.settings.soundEnabled # FALSE
    THEN [w EXCEPT !.event.played = TRUE]
    ELSE w

\* the callback of the metronome interval h: the audio set up by
\* startMetronome is played unless the timer is paused or a sound flag is off
metronomeTick(w, h) ==
    LET globalSoundEnabled == w.localStorage.soundEnabled # "false"
        metronomeEnabled == w.AppState.settings.soundEnabled # FALSE
    IN IF w.AppState.timer.isPaused THEN w
       ELSE IF globalSoundEnabled /\ metronomeEnabled
                 /\ ~w.AppState.timer.isPaused
       THEN [w EXCEPT !.event.played = TRUE]
       ELSE w

\* a clearCountdown that forgets the handle without cancelling the task
forgetCountdown(w) ==
    [w EXCEPT !.AppState.timer.interval = NoHandle]

\* clearInterval(AppState.timer.interval); AppState.timer.interval = null
clearCountdown(w) ==
    IF w.AppState.timer.interval # NoHandle
    THEN [w EXCEPT !.tasks.countdown = @ \ {w.AppState.timer.interval},
                   !.AppState.timer.interval = NoHandle,
                   !.event.cancelled = TRUE]
    ELSE w

\* startTimer(seconds); rs and rb are the random duration and BPM it may draw.
\* Every window-open timeout (500 ms) pending now fires before the first tick
\* (1000 ms) of the countdown created here.
startTimer(w, seconds, rs, rb) ==
    LET w1 == clearCountdown(w)
        secs == IF Falsy(seconds) \/ seconds <= 0 THEN rs ELSE seconds
        h == NewHandle(w1.tasks.countdown)
        w2 == [w1 EXCEPT
                 !.AppState.timer.seconds = secs,
                 !.AppState.timer.originalSeconds = secs,
                 !.AppState.timer.isPaused = FALSE,
                 !.AppState.timer.interval = h,
                 !.tasks.countdown = @ \cup {h},
                 !.tasks.opens = [i \in DOMAIN @ |-> [@[i] EXCEPT !.early = TRUE]]]
    IN IF w.localStorage.soundEnabled # "false"
       THEN startMetronome(w2,
                DerivedSpeed(secs, w.AppState.timer.minTime, w.AppState.timer.maxTime),
                rb)
       ELSE w2

\* a pauseTimer that pauses instead of toggling
pauseOnly(w, rb) ==
    [w EXCEPT !.AppState.timer.isPaused = TRUE]

\* pauseTimer
pauseTimer(w, rb) ==
    LET w1 == [w EXCEPT !.AppState.timer.isPaused = ~@]
    IN IF ~w1.AppState.timer.isPaused
          /\ ~Falsy(w1.AppState.metronome.speed)
          /\ w1.AppState.metronome.interval = NoHandle
       THEN startMetronome(w1, w1.AppState.metronome.speed, rb)
       ELSE w1

\* resetTimer(useNewTime)
resetTimer(w, useNewTime, rs, rb) ==
    LET w1 == clearCountdown(w)
        newSeconds == IF useNewTime \/ w.AppState.timer.originalSeconds <= 0
                      THEN rs ELSE w.AppState.timer.originalSeconds
        w2 == [w1 EXCEPT !.AppState.timer.seconds = newSeconds,
                         !.AppState.timer.originalSeconds = newSeconds,
                         !.AppState.timer.isPaused = FALSE]
    IN startTimer(w2, newSeconds, rs, rb)

-----------------------------------------------------------------------------
(* Statistics (stats.js) *)

\* finishContent: pauseTimer, then the counter of the kind of the current
\* content, then saveToStorage (not awaited)
finishContent(w, rb) ==
    LET w1 == pauseTimer(w, rb)
        w2 == IF w1.AppState.content.isPunishment
              THEN [w1 EXCEPT !.AppState.stats.punishmentsCompletedCount = @ + 1]
              ELSE [w1 EXCEPT !.AppState.stats.favoritesCompletedCount = @ + 1]
    IN saveToStorage(w2, "none")

-----------------------------------------------------------------------------
(* Content pipeline (content.js) *)

Enabled(list) == SelectSeq(list, LAMBDA item : item.enabled)

\* a startBrowsing that does not validate the selection
browseUnchecked(w) ==
    [showLoading(w) EXCEPT
       !.event.browse = TRUE,
       !.ui.startButton = "Skip",
       !.net.content =
           Append(@, [contentSource |->
                         IF w.AppState.settings.contentSource # UNDEF
                         THEN w.AppState.settings.contentSource ELSE "reddit",
                      overtaken |-> FALSE]),
       !.event.requested = TRUE]

\* startBrowsing up to the await of the fetch of /get_content
startBrowsing(w) ==
    LET w1 == [showLoading(w) EXCEPT !.event.browse = TRUE]
        st == w.AppState.settings
        source == IF st.contentSource # UNDEF THEN st.contentSource ELSE "reddit"
        includePunishments == st.punishmentsEnabled
        noSubreddits ==
            /\ Enabled(w.AppState.subreddits.favorites) = <<>>
            /\ (includePunishments =>
                    Enabled(w.AppState.subreddits.punishments) = <<>>)
        noFolders ==
            /\ w.AppState.folders.enabledContentFolders = {}
            /\ (includePunishments =>
                    w.AppState.folders.enabledPunishmentFolders = {})
    IN IF source = "reddit" /\ noSubreddits
       THEN showError(w1, "Please add and enable at least one subreddit to browse.")
       ELSE IF source = "custom" /\ noFolders
       THEN showError(w1, "Please enable at least one content folder in settings.")
       ELSE [w1 EXCEPT !.ui.startButton = "Skip",
                       !.net.content = Append(@, [contentSource |-> source,
                                                  overtaken |-> FALSE]),
                       !.event.requested = TRUE]

\* close the tracked external window if it is still open
closeTrackedWindow(w) ==
    IF w.AppState.content.redditWindow # NULL /\ w.extWindow.open
    THEN [w EXCEPT !.extWindow.open = FALSE,
                   !.AppState.content.redditWindow = NULL]
    ELSE w

\* every window-open timeout still pending belongs to content that is over
supersede(w) ==
    [w EXCEPT !.tasks.opens = [i \in DOMAIN @ |-> [@[i] EXCEPT !.stale = TRUE]]]

scheduleOpen(w) ==
    [w EXCEPT !.tasks.opens = Append(@, [stale |-> FALSE, early |-> FALSE])]

\* the history entry of a payload; now is the value of Date.now()
HistoryEntry(data, now) ==
    [id |-> data.id, timestamp |-> now, isPunishment |-> data.isPunishment]

\* a PushHistory that never trims
PushHistoryUntrimmed(history, entry) == <<entry>> \o history

\* history.unshift(entry) and the trim to historyMaxSize
PushHistory(history, entry) ==
    LET h == <<entry>> \o history
    IN IF Len(h) > historyMaxSize THEN SubSeq(h, 1, historyMaxSize) ELSE h

\* a gallery viewer that registers its keydown listener and removes none
galleryListenerAdded(w) ==
    LET handleKeyDown == NewHandle(w.ui.keydown)
    IN [w EXCEPT
          !.ui.keydown = @ \cup {handleKeyDown},
          !.AppState.content.previousGalleryKeyboardListener = handleKeyDown]

\* the keyboard navigation of the gallery viewer: the new listener is added
\* to the document, the one recorded by the previous gallery is removed, and
\* the new one is recorded in its place
galleryListener(w) ==
    LET handleKeyDown == NewHandle(w.ui.keydown)
        previous == w.AppState.content.previousGalleryKeyboardListener
    IN [w EXCEPT
          !.ui.keydown =
              IF previous # NoHandle
              THEN (@ \cup {handleKeyDown}) \ {previous}
              ELSE @ \cup {handleKeyDown},
          !.AppState.content.previousGalleryKeyboardListener = handleKeyDown]

\* displayContent(data)
displayContent(w, data) ==
    LET type == ContentType(data)
        w1 == supersede(closeTrackedWindow(w))
        w2 == [w1 EXCEPT !.AppState.content.currentContent = data,
                         !.AppState.content.isPunishment = data.isPunishment,
                         !.ui.imageFallback = FALSE,
                         !.ui.video = FALSE,
                         !.ui.metadataPending = FALSE,
                         !.ui.shown = Renderer(type),
                         !.ui.src = IF type = "image" /\ ~IsGallery(data)
                                    THEN ImageSrc(Classify(data).url)
                                    ELSE <<>>]
        w3 == IF HasContentId(data)
              THEN [w2 EXCEPT
                     !.AppState.content.history =
                         PushHistory(@, HistoryEntry(data, w.tasks.clock + 1)),
                     !.tasks.clock = @ + 1]
              ELSE w2
    IN IF type = "image"
       THEN (IF IsGallery(data)
             THEN galleryListener(w3)
             ELSE [w3 EXCEPT !.ui.imageFallback =
                                 IsRedditContent(Classify(data).url)])
       ELSE IF type = "video"
       THEN [w3 EXCEPT !.ui.video = TRUE, !.ui.metadataPending = TRUE]
       ELSE IF type = "external" THEN scheduleOpen(w3)
       ELSE w3

\* a contentReceived that drops the response to an overtaken request
contentReceivedInOrder(w, data, rs, rb) ==
    IF w.event.stale THEN w ELSE displayContent(w, data)

\* a contentReceived that only displays
contentDisplayedOnly(w, data, rs, rb) == displayContent(w, data)

\* startBrowsing after the response: a successful content payload
contentReceived(w, data, rs, rb) ==
    LET w1 == displayContent(w, data)
        st == w1.AppState.settings
        w2 == IF st.autoCycleEnabled
              THEN (IF data.timer_seconds # 0
                    THEN startTimer(w1, data.timer_seconds, rs, rb)
                    ELSE IF st.autoCycleInterval > 0
                    THEN startTimer(w1, ParseIntOr(st.autoCycleInterval, DefaultCycleSeconds), rs, rb)
                    ELSE startTimer(w1, rs, rs, rb))
              ELSE w1
    IN IF data.metronome_speed # 0
       THEN startMetronome(w2, data.metronome_speed, rb)
       ELSE w2

\* names of a list that differ from name, compared in lower case
Lower(c) ==
    IF c = "A" THEN "a" ELSE IF c = "B" THEN "b" ELSE IF c = "R" THEN "r" ELSE c
ToLowerCase(name) == [i \in DOMAIN name |-> Lower(name[i])]
\* the same, compared as written
WithoutExactName(list, name) == SelectSeq(list, LAMBDA item : item.name # name)

WithoutName(list, name) ==
    SelectSeq(list, LAMBDA item : ToLowerCase(item.name) # ToLowerCase(name))

\* startBrowsing after the response {error: 'subreddit_not_found', subreddit},
\* up to the await of saveToStorage
subredditNotFound(w, deletedSub) ==
    saveToStorage(
        [w EXCEPT !.AppState.subreddits.favorites = WithoutName(@, deletedSub),
                  !.AppState.subreddits.punishments = WithoutName(@, deletedSub)],
        "retry")

\* ... and after it: the notice and the retry scheduled 2 seconds later
subredditRemoved(w) ==
    [showError(w, "Subreddit has been removed from your lists")
        EXCEPT !.tasks.retries = @ + 1]

\* n-- in floating point: Infinity stays Infinity
Decrement(n) == IF n = PosInfinity THEN n ELSE n - 1

\* Math.floor of a duration given in half seconds, or of Infinity
MathFloor(duration) ==
    IF duration = PosInfinity THEN duration ELSE duration \div 2

\* a loadedmetadata handler that sets the timer to any valid video duration
videoMetadataUnguarded(w, duration) ==
    LET videoDuration == MathFloor(duration)
    IN IF w.AppState.settings.videoTimerSoftLimitEnabled
          /\ videoDuration > 0 /\ ~Falsy(w.AppState.timer.seconds)
       THEN [w EXCEPT !.AppState.timer.seconds = videoDuration,
                      !.AppState.timer.originalSeconds = videoDuration,
                      !.ui.metadataPending = FALSE]
       ELSE [w EXCEPT !.ui.metadataPending = FALSE]

\* the loadedmetadata listener of the video element that displayContent
\* creates; duration is video.duration
videoMetadata(w, duration) ==
    LET videoDuration == MathFloor(duration)
        currentTimerDuration == w.AppState.timer.seconds
    IN IF w.AppState.settings.videoTimerSoftLimitEnabled
          /\ videoDuration > 0 /\ ~Falsy(w.AppState.timer.seconds)
          /\ videoDuration > currentTimerDuration
       THEN [w EXCEPT !.AppState.timer.seconds = videoDuration,
                      !.AppState.timer.originalSeconds = videoDuration,
                      !.ui.metadataPending = FALSE]
       ELSE [w EXCEPT !.ui.metadataPending = FALSE]

\* a countdown callback that leaves its task alive when it runs out
countdownUncancelled(w, h) ==
    IF w.AppState.timer.isPaused THEN w
    ELSE LET w1 == [w EXCEPT !.AppState.timer.seconds = Decrement(@)]
         IN IF w1.AppState.timer.seconds <= 0
            THEN startBrowsing(
                     supersede(closeTrackedWindow(
                         [w1 EXCEPT !.event.expired = TRUE])))
            ELSE w1

\* the countdown callback of startTimer, run by interval task h
countdown(w, h) ==
    IF w.AppState.timer.isPaused THEN w
    ELSE LET w1 == [w EXCEPT !.AppState.timer.seconds = Decrement(@)]
         IN IF w1.AppState.timer.seconds <= 0
            THEN startBrowsing(
                     supersede(closeTrackedWindow(
                         [clearCountdown(w1) EXCEPT !.event.expired = TRUE])))
            ELSE w1

-----------------------------------------------------------------------------
(* Storage: loadFromStorage (storage.js), initialize (init.js) *)

Sources == {"reddit", "custom", "mixed"}

EmptyObject == [k \in {} |-> 0]

Bool(b) == IF b THEN "true" ELSE "false"

\* a field merge with replace-all semantics for the timer range and the
\* punishments switch: an absent field becomes undefined
ReplaceSettings(w, st) ==
    [w EXCEPT
      !.AppState.settings.timerMin = IF Has(st, "timerMin") THEN st.timerMin ELSE Undef,
      !.AppState.settings.timerMax = IF Has(st, "timerMax") THEN st.timerMax ELSE Undef,
      !.AppState.settings.punishmentsEnabled =
          IF Has(st, "punishmentsEnabled") THEN st.punishmentsEnabled ELSE FALSE]

\* the merge of the loaded settings into AppState, field by field
ApplySettings(w, st) ==
    [w EXCEPT
      !.AppState.subreddits.favorites =
          IF Has(st, "favorites") THEN st.favorites ELSE @,
      !.AppState.subreddits.punishments =
          IF Has(st, "punishments") THEN st.punishments ELSE @,
      !.AppState.settings.punishmentsEnabled =
          IF Has(st, "punishmentsEnabled") THEN st.punishmentsEnabled ELSE @,
      !.AppState.settings.autoCycleEnabled =
          IF Has(st, "autoCycleEnabled") THEN st.autoCycleEnabled ELSE @,
      !.AppState.settings.autoCycleInterval =
          IF Has(st, "autoCycleInterval") /\ ~Falsy(st.autoCycleInterval)
          THEN st.autoCycleInterval ELSE @,
      !.AppState.settings.videoTimerSoftLimitEnabled =
          IF Has(st, "videoTimerSoftLimitEnabled")
          THEN st.videoTimerSoftLimitEnabled ELSE @,
      !.AppState.settings.theme = IF Has(st, "theme") THEN st.theme ELSE @,
      !.AppState.settings.timerMin = IF Has(st, "timerMin") THEN st.timerMin ELSE @,
      !.AppState.settings.timerMax = IF Has(st, "timerMax") THEN st.timerMax ELSE @,
      !.AppState.settings.soundEnabled =
          IF Has(st, "soundEnabled") THEN st.soundEnabled ELSE @,
      !.localStorage.soundEnabled =
          IF Has(st, "soundEnabled") THEN Bool(st.soundEnabled) ELSE @,
      !.AppState.settings.metronomeVolume =
          IF Has(st, "metronomeVolume") THEN st.metronomeVolume ELSE @,
      !.AppState.settings.enabledContentFolders =
          IF Has(st, "enabledContentFolders") THEN st.enabledContentFolders ELSE @,
      !.AppState.folders.enabledContentFolders =
          IF Has(st, "enabledContentFolders") THEN st.enabledContentFolders ELSE @,
      !.AppState.settings.enabledPunishmentFolders =
          IF Has(st, "enabledPunishmentFolders")
          THEN st.enabledPunishmentFolders ELSE @,
      !.AppState.folders.enabledPunishmentFolders =
          IF Has(st, "enabledPunishmentFolders")
          THEN st.enabledPunishmentFolders ELSE @,
      !.AppState.settings.redditCredentials =
          IF Has(st, "redditCredentials") THEN st.redditCredentials ELSE @,
      !.AppState.stats = IF Has(st, "stats") THEN st.stats ELSE @]

\* the content source chosen from the three candidates
finalContentSource(url, session, settingsSource) ==
    IF url \in Sources THEN url
    ELSE IF session # NULL THEN session
    ELSE IF settingsSource # UNDEF THEN settingsSource
    ELSE "reddit"

\* a catch block that applies nothing
SkipFallback(w, st) == w

\* the catch block of loadFromStorage: the fields it applies from the cache
ApplyFallback(w, st) ==
    [w EXCEPT
      !.AppState.subreddits.favorites =
          IF Has(st, "favorites") THEN st.favorites ELSE @,
      !.AppState.subreddits.punishments =
          IF Has(st, "punishments") THEN st.punishments ELSE @,
      !.AppState.settings.contentSource =
          IF Has(st, "contentSource") THEN st.contentSource ELSE @,
      !.AppState.settings.punishmentsEnabled =
          IF Has(st, "punishmentsEnabled") THEN st.punishmentsEnabled ELSE @,
      !.AppState.settings.autoCycleEnabled =
          IF Has(st, "autoCycleEnabled") THEN st.autoCycleEnabled ELSE @,
      !.AppState.settings.autoCycleInterval =
          IF Has(st, "autoCycleInterval") /\ ~Falsy(st.autoCycleInterval)
          THEN st.autoCycleInterval ELSE @,
      !.AppState.settings.theme = IF Has(st, "theme") THEN st.theme ELSE @,
      !.AppState.settings.timerMin = IF Has(st, "timerMin") THEN st.timerMin ELSE @,
      !.AppState.settings.timerMax = IF Has(st, "timerMax") THEN st.timerMax ELSE @,
      !.AppState.settings.soundEnabled =
          IF Has(st, "soundEnabled") THEN st.soundEnabled ELSE @,
      !.localStorage.soundEnabled =
          IF Has(st, "soundEnabled") THEN Bool(st.soundEnabled) ELSE @,
      !.AppState.settings.enabledContentFolders =
          IF Has(st, "enabledContentFolders") THEN st.enabledContentFolders ELSE @,
      !.AppState.settings.enabledPunishmentFolders =
          IF Has(st, "enabledPunishmentFolders")
          THEN st.enabledPunishmentFolders ELSE @,
      !.AppState.settings.redditCredentials =
          IF Has(st, "redditCredentials") THEN st.redditCredentials ELSE @]

\* loadFromStorage up to the await of the fetch of /load_settings: the local
\* cache is read and parsed
loadStart(w) ==
    [w EXCEPT !.net.load = w.localStorage.goonAppSettings, !.pc = "loading"]

\* the settings loadFromStorage goes on with: the payload of the server once
\* it is cached, else the parsed local cache, else the empty object
ChosenSettings(cached, payload, parsedLocalSettings) ==
    IF cached THEN payload
    ELSE IF parsedLocalSettings.state = "json" THEN parsedLocalSettings.value
    ELSE EmptyObject

\* The rest of loadFromStorage once /load_settings is answered.  Caching the
\* payload is inside the try block of the fetch: when localStorage.setItem
\* throws, the payload is given up like a failed fetch.  The return statement
\* names a constant of that inner block and throws a ReferenceError on every
\* path, so the catch block always runs, on the local cache as it is then.
loadDone(w, remoteOk) ==
    LET payload == w.server.settings.value
        cached == remoteOk /\ ~w.localStorage.full
        settings == ChosenSettings(cached, payload, w.net.load)
        url == w.location
        session == w.sessionStorage.contentSource
        fromSettings == IF Has(settings, "contentSource")
                        THEN settings.contentSource ELSE UNDEF
        final == finalContentSource(url, session, fromSettings)
        w1 == [w EXCEPT
                 !.localStorage.goonAppSettings =
                     IF cached THEN Json(payload) ELSE @,
                 !.event.remote = IF remoteOk THEN "ok" ELSE "fail",
                 !.server.loads = @ + 1,
                 !.event.candidates = [url |-> url, session |-> session,
                                       settings |-> fromSettings],
                 !.pc = "loaded"]
        w2 == [ApplySettings(w1, settings) EXCEPT
                 !.AppState.settings.contentSource = final,
                 !.sessionStorage.contentSource = final,
                 !.localStorage.contentSource = final,
                 !.location = IF url = "" THEN final ELSE @]
        w3 == updateAutoCycleUI(w2)
        fallback == w3.localStorage.goonAppSettings
    IN IF fallback.state = "json"
       THEN ApplyFallback(w3, fallback.value)
       ELSE showError(w3, "Failed to load settings")

\* the answer of /get_custom_folders when the server finds no folder
NoFolders == [content |-> {}, punishment |-> {}]

\* fetchCustomFolders after a successful response: the folders found by the
\* server are recorded, the enabled folders of the settings are copied to
\* AppState.folders, and the settings are saved
foldersFetched(w, data) ==
    saveToStorage(
        [w EXCEPT
           !.net.folders = FALSE,
           !.AppState.folders.content = data.content,
           !.AppState.folders.punishment = data.punishment,
           !.AppState.folders.enabledContentFolders =
               w.AppState.settings.enabledContentFolders,
           !.AppState.folders.enabledPunishmentFolders =
               w.AppState.settings.enabledPunishmentFolders], "none")

\* fetchCustomFolders answered, by an empty listing or by a failure
foldersDone(w, ok) ==
    IF ok
    THEN foldersFetched(w, NoFolders)
    ELSE showError([w EXCEPT !.net.folders = FALSE], "Failed to fetch folders")

\* the key of the enabled folders of a type
EnabledFoldersKey(type) ==
    IF type = "content" THEN "enabledContentFolders" ELSE "enabledPunishmentFolders"

\* Folders.toggleFolder(type, folderName)
toggleFolder(w, type, folderName) ==
    LET key == EnabledFoldersKey(type)
        enabledFolders == w.AppState.folders[key]
    IN saveToStorage(
           [w EXCEPT !.AppState.folders[key] =
                        IF folderName \in enabledFolders
                        THEN enabledFolders \ {folderName}
                        ELSE enabledFolders \cup {folderName}], "none")

\* Folders.setAllFolders(type, enabled)
setAllFolders(w, type, enabled) ==
    saveToStorage(
        [w EXCEPT !.AppState.folders[EnabledFoldersKey(type)] =
                     IF enabled THEN w.AppState.folders[type] ELSE {}], "none")

Themes == {"light", "dark"}

\* Theme.applySavedTheme
applySavedTheme(w) ==
    LET savedTheme == IF w.AppState.settings.theme \in Themes
                      THEN w.AppState.settings.theme ELSE "light"
    IN saveToStorage([w EXCEPT !.AppState.settings.theme = savedTheme,
                               !.localStorage.theme = savedTheme], "none")

\* initialize() after the await of loadFromStorage
initialize(w) ==
    LET st == w.AppState.settings
        w1 == [w EXCEPT
                 !.AppState.timer.minTime = ParseIntOr(st.timerMin, DefaultTimerMin),
                 !.AppState.timer.maxTime = ParseIntOr(st.timerMax, DefaultTimerMax),
                 !.AppState.metronome.speed = DefaultSpeed,
                 !.localStorage.soundEnabled = Bool(st.soundEnabled),
                 !.net.folders = TRUE,
                 !.pc = "ready"]
    IN updateAutoCycleUI(applySavedTheme(w1))

\* the change handler of the content source radios
contentSourceChanged(w, value) ==
    saveToStorage([w EXCEPT !.AppState.settings.contentSource = value], "none")

-----------------------------------------------------------------------------
(* Subreddit registry (content.js).  A string is a sequence of characters. *)

Item(name, enabled) == [name |-> name, enabled |-> enabled]

\* splice(i, 1)
Remove(seq, i) == SubSeq(seq, 1, i - 1) \o SubSeq(seq, i + 1, Len(seq))

RECURSIVE TrimLeft(_)
TrimLeft(str) ==
    IF str # <<>> /\ Head(str) = " " THEN TrimLeft(Tail(str)) ELSE str

RECURSIVE TrimRight(_)
TrimRight(str) ==
    IF str # <<>> /\ str[Len(str)] = " "
    THEN TrimRight(SubSeq(str, 1, Len(str) - 1)) ELSE str

Trim(str) == TrimRight(TrimLeft(str))

StartsWith(str, prefix) ==
    Len(str) >= Len(prefix) /\ SubSeq(str, 1, Len(prefix)) = prefix

\* the characters of [a-z0-9_] and their upper case that the inputs use
WordChars == {"a", "b", "c", "d", "e", "f", "h", "i", "m", "o", "p", "r", "s", "t",
              "w", "A", "B", "R", "_", "1"}

RedditUrl == <<"r", "e", "d", "d", "i", "t", ".", "c", "o", "m", "/", "r", "/">>

\* the longest prefix of str without '/' and '?'
RECURSIVE Segment(_)
Segment(str) ==
    IF str = <<>> \/ Head(str) \in {"/", "?"} THEN <<>>
    ELSE <<Head(str)>> \o Segment(Tail(str))

\* name.match(/reddit\.com\/r\/([^\/\?]+)/i): the positions where it matches
UrlMatches(str) ==
    {i \in 1 .. Len(str) - Len(RedditUrl) :
        /\ SubSeq(ToLowerCase(str), i, i + Len(RedditUrl) - 1) = RedditUrl
        /\ str[i + Len(RedditUrl)] \notin {"/", "?"}}

\* a normalizer that only trims
trimmedName(input) == Trim(input)

extractSubredditName(input) ==
    LET trimmed == Trim(input)
        name == IF StartsWith(trimmed, <<"r", "/">>)
                THEN SubSeq(trimmed, 3, Len(trimmed)) ELSE trimmed
        at == UrlMatches(name)
        first == CHOOSE i \in at : \A j \in at : i <= j
        found == IF at # {}
                 THEN Segment(SubSeq(name, first + Len(RedditUrl), Len(name)))
                 ELSE name
    IN IF input = <<>> THEN <<>>
       ELSE SelectSeq(found, LAMBDA c : c \in WordChars)

\* a comparison of names that tells upper from lower case
ExactName(a, b) == a = b

\* item.name.toLowerCase() === subredditName.toLowerCase()
SameName(a, b) == ToLowerCase(a) = ToLowerCase(b)

\* addSubreddit(type) with the text of the input element
addSubreddit(w, type, input) ==
    LET inputValue == Trim(input)
        subredditName == extractSubredditName(inputValue)
        list == w.AppState.subreddits[type]
        w1 == [w EXCEPT !.event.add = [type |-> type, name |-> subredditName]]
    IN IF inputValue = <<>> THEN w
       ELSE IF subredditName = <<>>
       THEN showError(w, "Invalid subreddit name. Please enter a valid subreddit name or URL.")
       ELSE IF \E i \in DOMAIN list : SameName(list[i].name, subredditName)
       THEN showError(w1, "Subreddit is already in your list.")
       ELSE saveToStorage(
                [w1 EXCEPT !.AppState.subreddits[type] =
                               Append(@, Item(subredditName, TRUE))],
                "none")

toggleSubreddit(w, type, index) ==
    IF index \notin DOMAIN w.AppState.subreddits[type] THEN w
    ELSE saveToStorage(
             [w EXCEPT !.AppState.subreddits[type][index].enabled = ~@], "none")

removeSubreddit(w, type, index) ==
    IF index \notin DOMAIN w.AppState.subreddits[type] THEN w
    ELSE saveToStorage(
             [w EXCEPT !.AppState.subreddits[type] = Remove(@, index)], "none")

setAllSubreddits(w, type, enabled) ==
    saveToStorage(
        [w EXCEPT !.AppState.subreddits[type] =
                      [i \in DOMAIN @ |-> [@[i] EXCEPT !.enabled = enabled]]],
        "none")

\* removeAllSubreddits(type); ok is the answer to the confirm box
removeAllSubreddits(w, type, ok) ==
    IF ok THEN saveToStorage([w EXCEPT !.AppState.subreddits[type] = <<>>], "none")
    ELSE w

-----------------------------------------------------------------------------
(* Settings form and auto-cycle checkbox (settings.js, init.js) *)


\* saveSettings; form holds the values typed into the two number inputs, the
\* radios and checkboxes show the values their change handlers recorded
saveSettings(w, form) ==
    LET st == w.AppState.settings
        contentSource == IF st.contentSource \in Sources
                         THEN st.contentSource ELSE "reddit"
        userAgent == IF form.userAgent = "" THEN DefaultUserAgent
                     ELSE form.userAgent
        w0 == IF ~st.autoCycleEnabled THEN clearCountdown(w) ELSE w
        w1 == [w0 EXCEPT
                 !.AppState.settings.contentSource = contentSource,
                 !.sessionStorage.contentSource = contentSource,
                 !.AppState.settings.timerMin = form.timerMin,
                 !.AppState.settings.timerMax = form.timerMax,
                 !.AppState.settings.autoCycleInterval =
                     (ParseIntOr(form.timerMin, DefaultTimerMin)
                        + ParseIntOr(form.timerMax, DefaultTimerMax)) \div 2,
                 !.AppState.settings.metronomeVolume = OrElse(@, DefaultVolume),
                 !.AppState.settings.soundEnabled =
                     (w.localStorage.soundEnabled # "false"),
                 !.AppState.settings.redditCredentials =
                     [client_id |-> form.clientId,
                      client_secret |-> form.clientSecret,
                      user_agent |-> userAgent],
                 !.AppState.settings.redditClientId = form.clientId,
                 !.AppState.settings.redditClientSecret = form.clientSecret,
                 !.AppState.settings.redditUserAgent = userAgent]
        w2 == updateAutoCycleUI(saveToStorage(w1, "none"))
    IN [w2 EXCEPT
          !.localStorage.theme = w2.AppState.settings.theme,
          !.AppState.timer.minTime =
              ParseIntOr(w2.AppState.settings.timerMin, DefaultTimerMin),
          !.AppState.timer.maxTime =
              ParseIntOr(w2.AppState.settings.timerMax, DefaultTimerMax),
          !.AppState.metronome.speed = DefaultSpeed]

\* resetCredentials, confirmed by the user: the nested object is replaced by
\* one with the keys clientId, clientSecret, username and password
resetCredentials(w) ==
    saveToStorage(
        [w EXCEPT !.AppState.settings.redditCredentials =
                      [clientId |-> "", clientSecret |-> "",
                       username |-> "", password |-> ""]], "none")

\* the click handler of the sound toggle; input: the value of the
\* metronomeSpeed input, Undef when the page has none
soundToggled(w, input, rb) ==
    LET soundEnabled == w.localStorage.soundEnabled # "false"
        w1 == [w EXCEPT !.localStorage.soundEnabled = Bool(~soundEnabled),
                        !.AppState.settings.soundEnabled = ~soundEnabled]
    IN IF w.AppState.metronome.interval # NoHandle
       THEN startMetronome(w1, ParseIntOr(input, DefaultSpeed), rb)
       ELSE w1

\* the change handler of the auto-cycle checkbox
autoCycleChanged(w, rs, rb) ==
    LET checked == ~w.AppState.settings.autoCycleEnabled
        w1 == [w EXCEPT !.AppState.settings.autoCycleEnabled = checked]
        w2 == IF ~checked /\ w1.AppState.timer.interval # NoHandle
              THEN [clearCountdown(w1) EXCEPT !.AppState.timer.seconds = 0]
              ELSE w1
        w3 == IF checked /\ w2.AppState.timer.interval = NoHandle
              THEN startTimer(w2,
                       ParseIntOr(w2.AppState.settings.autoCycleInterval,
                                  DefaultCycleSeconds), rs, rb)
              ELSE w2
    IN saveToStorage(updateAutoCycleUI(w3), "none")

\* the click handler of the Reset button; ok is the answer to the confirm box
resetClicked(w, ok, rs, rb) ==
    IF w.AppState.timer.originalSeconds > 0
    THEN resetTimer(w, ~ok, rs, rb)
    ELSE IF ok THEN resetTimer(w, TRUE, rs, rb) ELSE w

\* the click handler of the Start/Skip button
startClicked(w) ==
    startBrowsing(
        [w EXCEPT !.ui.startButton = IF @ = "Skip" THEN "Loading..." ELSE @])

\* a window-open timeout fires: window.open(url, 'externalContent', ...)
\* replaces whatever the named window shows
openFires(w) ==
    [w EXCEPT !.tasks.opens = Tail(@),
              !.extWindow = [open |-> TRUE, stale |-> Head(w.tasks.opens).stale],
              !.AppState.content.redditWindow = "window"]

\* the error handler of a Reddit CDN image schedules the external open
imageError(w) == scheduleOpen([w EXCEPT !.ui.imageFallback = FALSE])

-----------------------------------------------------------------------------
(* Initial states *)

\* the AppState literal of core.js
\* the nested credentials object AppState is declared with
NoCredentials ==
    [client_id |-> "", client_secret |-> "", user_agent |-> DefaultUserAgent]

DefaultAppState ==
    [timer |-> [interval |-> NoHandle, seconds |-> 0, originalSeconds |-> 0,
                isPaused |-> FALSE, minTime |-> 30, maxTime |-> 300],
     metronome |-> [interval |-> NoHandle, speed |-> DefaultSpeed],
     content |-> [currentContent |-> NullContent, isPunishment |-> FALSE,
                  isLoading |-> FALSE, redditWindow |-> NULL, history |-> <<>>,
                  previousGalleryKeyboardListener |-> NoHandle],
     subreddits |-> [favorites |-> <<>>, punishments |-> <<>>],
     folders |-> [content |-> {}, punishment |-> {},
                  enabledContentFolders |-> {}, enabledPunishmentFolders |-> {}],
     stats |-> [favoritesCompletedCount |-> 0, punishmentsCompletedCount |-> 0],
     settings |-> [contentSource |-> UNDEF, punishmentsEnabled |-> TRUE,
                   autoCycleEnabled |-> TRUE, autoCycleInterval |-> Undef,
                   videoTimerSoftLimitEnabled |-> TRUE,
                   timerMin |-> 30, timerMax |-> 120, soundEnabled |-> TRUE,
                   metronomeVolume |-> DefaultVolume, theme |-> "light",
                   enabledContentFolders |-> {},
                   enabledPunishmentFolders |-> {},
                   redditCredentials |-> NoCredentials,
                   redditClientId |-> UNDEF, redditClientSecret |-> UNDEF,
                   redditUserAgent |-> UNDEF]]

NoTasks == [countdown |-> {}, metronome |-> {}, opens |-> <<>>,
            retries |-> 0, clock |-> 0]

NoRequests == [content |-> <<>>, saves |-> <<>>, load |-> Absent,
               folders |-> FALSE]

FreshPage ==
    /\ tasks = NoTasks
    /\ net = NoRequests
    /\ extWindow = [open |-> FALSE, stale |-> FALSE]
    /\ ui = [startButton |-> "Start Browsing",
             imageFallback |-> FALSE, video |-> FALSE,
             keydown |-> {}, metadataPending |-> FALSE,
             shown |-> "none", src |-> <<>>]
    /\ event = NoEvent
    /\ lastSave = [called |-> FALSE, localOk |-> TRUE,
                   app |-> Persisted(DefaultAppState), remote |-> "none"]

\* The page after initialize() has loaded a user's settings: one enabled
\* favorite, the Reddit source, and a short timer range so that a countdown
\* runs out within a few ticks.
ShortMin == 1
ShortMax == 2

LoadedAppState(autoCycle) ==
    [DefaultAppState EXCEPT
        !.timer.minTime = ShortMin, !.timer.maxTime = ShortMax,
        !.subreddits.favorites = <<Item(<<"a">>, TRUE)>>,
        !.settings.contentSource = "reddit",
        !.settings.autoCycleEnabled = autoCycle,
        !.settings.autoCycleInterval = ShortMax,
        !.settings.timerMin = ShortMin, !.settings.timerMax = ShortMax]

\* the local cache and the remote store agree with AppState, as they do once
\* the saves of initialize() are answered
Ready(app, sound) ==
    /\ AppState = app
    /\ localStorage =
         [goonAppSettings |->
              Json(Stringify(SettingsObject(
                  [AppState |-> app,
                   localStorage |-> [soundEnabled |-> sound],
                   sessionStorage |-> [contentSource |-> "reddit"]]))),
          soundEnabled |-> sound, contentSource |-> "reddit",
          theme |-> "light", full |-> FALSE]
    /\ server = [settings |-> localStorage.goonAppSettings, loads |-> 0]
    /\ sessionStorage = [contentSource |-> "reddit"]
    /\ location = "reddit"
    /\ pc = "ready"
    /\ FreshPage

Init == \E autoCycle \in BOOLEAN : Ready(LoadedAppState(autoCycle), "true")

-----------------------------------------------------------------------------
(* Actions: one per handler, callback or response *)

\* the bounds on tasks and requests
Bounded(w) ==
    /\ Cardinality(w.tasks.countdown) <= MaxHandles
    /\ Cardinality(w.tasks.metronome) <= MaxHandles
    /\ Len(w.tasks.opens) <= MaxOpens
    /\ w.tasks.retries <= MaxRetries
    /\ Len(w.net.content) <= MaxInflight
    /\ Len(w.net.saves) <= MaxSaves

Step(w) == Bounded(w) /\ Commit(w)

\* payloads the server answers with in Spec: an external page, a Reddit CDN
\* image that carries a timer suggestion, a local video
ExternalPage == Payload("post_url", "other", FALSE, FALSE, 1, 0, 0, FALSE)
CdnImage == Payload("url", "img", TRUE, FALSE, 2, 1, 0, TRUE)
Payloads == {ExternalPage, CdnImage}

Names == {<<"a">>}

ClickStart ==
    /\ pc = "ready"
    /\ Step(startClicked(Begin(World)))

\* the requests left in flight once request i is answered with content: the
\* requests issued before it are marked as overtaken
Overtake(requests, i) ==
    [j \in 1 .. Len(requests) - 1 |->
        IF j < i THEN [requests[j] EXCEPT !.overtaken = TRUE]
        ELSE requests[j + 1]]

\* the response to /get_content number i carries content; with track, the
\* requests that stay in flight are marked as overtaken
ContentAnswered(payloads, maxClock, track) ==
    /\ pc = "ready"
    /\ tasks.clock < maxClock
    /\ \E i \in DOMAIN net.content, data \in payloads,
          rs \in Durations(World), rb \in RandomSpeeds :
         Step(contentReceived(
                  [Begin(World) EXCEPT
                     !.net.content = IF track THEN Overtake(@, i)
                                               ELSE Remove(@, i),
                     !.event.stale = net.content[i].overtaken],
                  data, rs, rb))

ContentOk(payloads, maxClock) == ContentAnswered(payloads, maxClock, FALSE)

\* the same, keeping track of the requests that the answered one overtakes
ContentOutOfOrder(payloads, maxClock) ==
    ContentAnswered(payloads, maxClock, TRUE)

\* ... carries {error: 'subreddit_not_found', subreddit}
ContentNotFound ==
    /\ pc = "ready"
    /\ \E i \in DOMAIN net.content, deletedSub \in Names :
         Step(subredditNotFound(
                  [Begin(World) EXCEPT !.net.content = Remove(@, i)],
                  deletedSub))

\* ... carries another error
ContentError ==
    /\ pc = "ready"
    /\ \E i \in DOMAIN net.content :
         Step(showError(
                  [Begin(World) EXCEPT !.net.content = Remove(@, i)],
                  "error"))

\* ... is not 2xx, or the request fails
ContentFailed ==
    /\ pc = "ready"
    /\ \E i \in DOMAIN net.content :
         Step(showError(
                  [Begin(World) EXCEPT !.net.content = Remove(@, i)],
                  "Failed to start browsing"))

\* the value saveToStorage resolves to once /save_settings has answered,
\* given whether the local write and the remote write succeeded: the failure
\* of either is caught and logged, and the function returns true
saveResult(localOk, remoteOk) == TRUE

\* the response to /save_settings number i; ok: the server stored the body
SaveDone(outcomes) ==
    /\ pc = "ready"
    /\ \E i \in DOMAIN net.saves, ok \in outcomes :
         LET req == net.saves[i]
             w0 == [Begin(World) EXCEPT
                       !.net.saves = Remove(@, i),
                       !.event.remote = IF ok THEN "ok" ELSE "fail",
                       !.event.resolved = Bool(saveResult(req.localOk, ok)),
                       !.lastSave.remote =
                           IF i < Len(net.saves) THEN @
                           ELSE IF ok THEN "ok" ELSE "fail",
                       !.server.settings = IF ok THEN Json(req.body) ELSE @]
         IN Step(IF req.then = "retry" THEN subredditRemoved(w0) ELSE w0)

\* the 2-second retry timeout fires
RetryFires ==
    /\ pc = "ready"
    /\ tasks.retries > 0
    /\ Step(startBrowsing(
                [Begin(World) EXCEPT !.tasks.retries = @ - 1]))

\* the countdown interval task h fires; window-open timeouts that were
\* pending when the countdown was created fire first
Tick ==
    /\ pc = "ready"
    /\ \A i \in DOMAIN tasks.opens : ~tasks.opens[i].early
    /\ \E h \in tasks.countdown : Step(countdown(Begin(World), h))

\* the metronome interval task h fires
MetronomeTick ==
    /\ pc = "ready"
    /\ \E h \in tasks.metronome : Step(metronomeTick(Begin(World), h))

OpenFires ==
    /\ pc = "ready"
    /\ tasks.opens # <<>>
    /\ Step(openFires(Begin(World)))

ImageError ==
    /\ pc = "ready"
    /\ ui.imageFallback
    /\ Step(imageError(Begin(World)))

\* the user closes the external window
UserClosesWindow ==
    /\ pc = "ready"
    /\ extWindow.open
    /\ Step([Begin(World) EXCEPT !.extWindow.open = FALSE])

ClickPause ==
    /\ pc = "ready"
    /\ \E rb \in RandomSpeeds : Step(pauseTimer(Begin(World), rb))

\* the metadata of the video on display arrive: video.duration is one of the
\* given durations
VideoMetadata(durations) ==
    /\ pc = "ready"
    /\ ui.metadataPending
    /\ \E duration \in durations : Step(videoMetadata(Begin(World), duration))

ClickReset ==
    /\ pc = "ready"
    /\ \E ok \in BOOLEAN, rs \in Durations(World), rb \in RandomSpeeds :
         Step(resetClicked(Begin(World), ok, rs, rb))

ToggleAutoCycle ==
    /\ pc = "ready"
    /\ \E rs \in Durations(World), rb \in RandomSpeeds :
         Step(autoCycleChanged(Begin(World), rs, rb))

ToggleSound ==
    /\ pc = "ready"
    /\ \E input \in {Undef}, rb \in RandomSpeeds :
         Step(soundToggled(Begin(World), input, rb))

\* the Save button of the settings form; values: what the user may type into
\* the two number inputs besides leaving them as they are
\* Save Settings is clicked with the timer fields and the client id and
\* secret fields holding what the user typed
SaveSettingsWith(values, ids) ==
    /\ pc = "ready"
    /\ \E tmin \in values \cup {AppState.settings.timerMin},
          tmax \in values \cup {AppState.settings.timerMax}, id \in ids :
         Step(saveSettings(Begin(World),
                           [timerMin |-> tmin, timerMax |-> tmax,
                            clientId |-> id, clientSecret |-> id,
                            userAgent |-> DefaultUserAgent]))

\* the same with the credential fields left as the page declares them
SaveSettings(values) == SaveSettingsWith(values, {""})

\* the user confirms Reset Credentials
ResetCredentials ==
    /\ pc = "ready"
    /\ Step(resetCredentials(Begin(World)))

\* what the user types into the subreddit input: plain names in both cases,
\* a name with the r/ prefix, a padded name, a URL, and two texts without a
\* name in them
RawInputs ==
    {<<"a">>, <<"A">>, <<"r", "/", "a">>, <<" ", "b", " ">>,
     RedditUrl \o <<"b", "/">>, <<"-">>, <<" ">>}

Types == {"favorites", "punishments"}

\* The list operations below are taken one at a time: the user acts on a
\* list after the save of the previous operation has been answered.

MaxList == 2

AddSubredditFrom(inputs) ==
    /\ pc = "ready"
    /\ net.saves = <<>>
    /\ \E type \in Types, input \in inputs :
         Step(addSubreddit(Begin(World), type, input))

AddSubreddit == AddSubredditFrom(RawInputs)

ToggleSubreddit ==
    /\ pc = "ready"
    /\ net.saves = <<>>
    /\ \E type \in Types, index \in 1 .. MaxList :
         Step(toggleSubreddit(Begin(World), type, index))

RemoveSubreddit ==
    /\ pc = "ready"
    /\ net.saves = <<>>
    /\ \E type \in Types, index \in 1 .. MaxList :
         Step(removeSubreddit(Begin(World), type, index))

SetAllSubreddits ==
    /\ pc = "ready"
    /\ net.saves = <<>>
    /\ \E type \in Types, enabled \in BOOLEAN :
         Step(setAllSubreddits(Begin(World), type, enabled))

RemoveAllSubreddits ==
    /\ pc = "ready"
    /\ net.saves = <<>>
    /\ \E type \in Types, ok \in BOOLEAN :
         Step(removeAllSubreddits(Begin(World), type, ok))

\* payloads the server answers with: a local video; an external page; a
\* Reddit CDN image that carries a timer suggestion
\* the user clicks the Finish button
ClickFinish ==
    /\ pc = "ready"
    /\ AppState.stats.favoritesCompletedCount
          + AppState.stats.punishmentsCompletedCount < MaxFinishes
    /\ \E rb \in RandomSpeeds : Step(finishContent(Begin(World), rb))

LocalVideo == Payload("content_url", "vid", FALSE, FALSE, 1, 0, 0, FALSE)

(* The timer: every handler that creates, pauses or cancels a countdown *)
Next ==
    \/ ClickStart
    \/ ContentOk({LocalVideo}, MaxClock)
    \/ ContentFailed
    \/ Tick
    \/ ClickPause
    \/ ClickReset
    \/ ToggleAutoCycle
    \/ SaveSettings({})
    \/ SaveDone(BOOLEAN)

Spec == Init /\ [][Next]_vars

(* The content pipeline: requests, responses, retries, the external window *)
InitContent == Ready(LoadedAppState(TRUE), "false")

NextContent ==
    \/ ClickStart
    \/ ContentOk(Payloads, MaxClock)
    \/ ContentNotFound
    \/ ContentError
    \/ ContentFailed
    \/ SaveDone(BOOLEAN)
    \/ RetryFires
    \/ Tick
    \/ OpenFires
    \/ ImageError
    \/ UserClosesWindow

SpecContent == InitContent /\ [][NextContent]_vars

(* The history: content is displayed with auto-cycle off until the history
   has overflowed *)
Unidentified == Payload("null", "other", FALSE, FALSE, 0, 0, 0, FALSE)

\* the payloads the server answers with in SpecHistory
HistoryPayloads == {LocalVideo, Unidentified}

InitHistory == Ready(LoadedAppState(FALSE), "false")

NextHistory ==
    \/ ClickStart
    \/ ContentOk(HistoryPayloads, MaxHistoryClock)
    \/ ContentFailed

SpecHistory == InitHistory /\ [][NextHistory]_vars

(* The subreddit registry: the five list operations and their saves *)
InitSubs == Ready(LoadedAppState(FALSE), "false")

NextSubs ==
    \/ AddSubreddit
    \/ ToggleSubreddit
    \/ RemoveSubreddit
    \/ SetAllSubreddits
    \/ RemoveAllSubreddits
    \/ SaveDone({FALSE})

SpecSubs == InitSubs /\ [][NextSubs]_vars

-----------------------------------------------------------------------------
(* The settings storage: page loads, the handlers that save, the answers of *)
(* the remote store, and the quota of localStorage                          *)

\* what the remote store holds before the first load, and a cache left by an
\* earlier visit
ServerSettings ==
    [favorites |-> <<Item(<<"b">>, TRUE)>>, punishments |-> <<>>,
     contentSource |-> "mixed", punishmentsEnabled |-> FALSE,
     autoCycleEnabled |-> FALSE, videoTimerSoftLimitEnabled |-> TRUE,
     theme |-> "dark", timerMin |-> 45, timerMax |-> 90,
     soundEnabled |-> FALSE, metronomeVolume |-> 5,
     stats |-> [favoritesCompletedCount |-> 2, punishmentsCompletedCount |-> 1],
     enabledContentFolders |-> {"f"}, enabledPunishmentFolders |-> {}]

CachedSettings ==
    [favorites |-> <<Item(<<"a">>, TRUE)>>, contentSource |-> "mixed",
     autoCycleEnabled |-> FALSE, timerMin |-> 10, theme |-> "dark"]

LoadStart ==
    /\ pc = "boot"
    /\ Step(loadStart(Begin(World)))

LoadDone ==
    /\ pc = "loading"
    /\ \E remoteOk \in BOOLEAN : Step(loadDone(Begin(World), remoteOk))

Initialize ==
    /\ pc = "loaded"
    /\ Step(initialize(Begin(World)))

FoldersDone ==
    /\ pc = "ready"
    /\ net.folders
    /\ \E ok \in BOOLEAN : Step(foldersDone(Begin(World), ok))

\* the listings /get_custom_folders can answer with
FolderListings == [content : SUBSET {"f", "g"}, punishment : SUBSET {"p"}]

FolderTypes == {"content", "punishment"}

\* Refresh Folders is clicked: fetchCustomFolders(true) sends its request
RefreshFolders ==
    /\ pc = "ready"
    /\ ~net.folders
    /\ Step([Begin(World) EXCEPT !.net.folders = TRUE])

\* /get_custom_folders answers with one of the listings
FoldersAnswered ==
    /\ pc = "ready"
    /\ net.folders
    /\ \E data \in FolderListings : Step(foldersFetched(Begin(World), data))

\* the toggle button of a folder of the rendered list is clicked
ToggleFolder ==
    /\ pc = "ready"
    /\ \E type \in FolderTypes : \E folderName \in AppState.folders[type] :
         Step(toggleFolder(Begin(World), type, folderName))

\* Enable All or Disable All is clicked
SetAllFolders ==
    /\ pc = "ready"
    /\ \E type \in FolderTypes, enabled \in BOOLEAN :
         Step(setAllFolders(Begin(World), type, enabled))

ContentSourceChanged ==
    /\ pc = "ready"
    /\ net.saves = <<>>
    /\ \E value \in Sources \ {AppState.settings.contentSource} :
         Step(contentSourceChanged(Begin(World), value))

\* the settings form is saved with a timer field left blank
SaveBlankRange ==
    /\ net.saves = <<>>
    /\ SaveSettings({Empty})

\* between two visits the quota of localStorage is used up, or space is
\* freed again
QuotaChanges ==
    /\ pc = "boot"
    /\ Step([Begin(World) EXCEPT !.localStorage.full = ~@])

\* the user reloads the page once the saves are answered (at most MaxLoads
\* page loads, counted where the server answers /load_settings): the script
\* state is gone, what the browser and
\* the server keep stays
Reload ==
    /\ pc = "ready"
    /\ net.saves = <<>>
    /\ server.loads < MaxLoads
    /\ AppState' = DefaultAppState
    /\ tasks' = NoTasks
    /\ net' = NoRequests
    /\ extWindow' = [open |-> FALSE, stale |-> FALSE]
    /\ ui' = [startButton |-> "Start Browsing",
              imageFallback |-> FALSE, video |-> FALSE,
             keydown |-> {}, metadataPending |-> FALSE,
             shown |-> "none", src |-> <<>>]
    /\ event' = NoEvent
    /\ pc' = "boot"
    /\ UNCHANGED <<localStorage, sessionStorage, location, server, lastSave>>

InitStorage ==
    /\ AppState = DefaultAppState
    /\ localStorage \in
         [goonAppSettings : {Absent, Malformed, Json(CachedSettings)},
          soundEnabled : {NULL}, contentSource : {NULL}, theme : {NULL},
          full : {FALSE}]
    /\ server = [settings |-> Json(ServerSettings), loads |-> 0]
    /\ \E visit \in {<<"custom", "reddit">>, <<"bogus", "reddit">>, <<"", NULL>>} :
         /\ location = visit[1]
         /\ sessionStorage = [contentSource |-> visit[2]]
    /\ pc = "boot"
    /\ FreshPage

NextStorage ==
    \/ LoadStart
    \/ LoadDone
    \/ Initialize
    \/ FoldersDone
    \/ ContentSourceChanged
    \/ SaveBlankRange
    \/ SaveDone({FALSE})
    \/ QuotaChanges
    \/ Reload

SpecStorage == InitStorage /\ [][NextStorage]_vars

-----------------------------------------------------------------------------
(* The selection: Start is clicked under every combination of content      *)
(* source, enabled subreddits, enabled folders and the punishments switch  *)

SubredditLists(name) == {<<>>, <<Item(name, FALSE)>>, <<Item(name, TRUE)>>}
FolderSets(name) == {{}, {name}}

InitSelection ==
    \E source \in Sources, punishmentsEnabled \in BOOLEAN,
       favorites \in SubredditLists(<<"a">>),
       punishments \in SubredditLists(<<"b">>),
       content \in FolderSets("f"), punishment \in FolderSets("p") :
         Ready([LoadedAppState(FALSE) EXCEPT
                  !.settings.contentSource = source,
                  !.settings.punishmentsEnabled = punishmentsEnabled,
                  !.subreddits.favorites = favorites,
                  !.subreddits.punishments = punishments,
                  !.folders.enabledContentFolders = content,
                  !.folders.enabledPunishmentFolders = punishment,
                  !.settings.enabledContentFolders = content,
                  !.settings.enabledPunishmentFolders = punishment],
               "false")

NextSelection ==
    \/ ClickStart
    \/ ContentError
    \/ ContentFailed

SpecSelection == InitSelection /\ [][NextSelection]_vars

-----------------------------------------------------------------------------
(* The retry: the server reports a subreddit as not found while the lists   *)
(* hold its name in both cases                                              *)

InitRetry ==
    Ready([LoadedAppState(TRUE) EXCEPT
             !.subreddits.favorites = <<Item(<<"A">>, TRUE), Item(<<"b">>, TRUE)>>,
             !.subreddits.punishments = <<Item(<<"a">>, TRUE)>>],
          "false")

NextRetry ==
    \/ ClickStart
    \/ ContentOk({LocalVideo}, MaxClock)
    \/ ContentNotFound
    \/ ContentFailed
    \/ SaveDone(BOOLEAN)
    \/ RetryFires

SpecRetry == InitRetry /\ [][NextRetry]_vars

-----------------------------------------------------------------------------
(* The cycle: content arrives with and without a timer suggestion, under    *)
(* settings with and without an auto-cycle interval                         *)

\* settings without an auto-cycle interval, as loaded from a store that has
\* none: the given timer range
WithoutInterval(app, minTime, maxTime) ==
    [app EXCEPT !.settings.autoCycleInterval = Undef,
                !.settings.timerMin = minTime, !.settings.timerMax = maxTime,
                !.timer.minTime = minTime, !.timer.maxTime = maxTime]

InitCycle ==
    \E autoCycle \in BOOLEAN :
      \E app \in {LoadedAppState(autoCycle),
                  WithoutInterval(LoadedAppState(autoCycle), ShortMin, ShortMax),
                  WithoutInterval(LoadedAppState(autoCycle), FixedRange, FixedRange)} :
         Ready(app, "false")

NextCycle ==
    \/ ClickStart
    \/ ContentOk(Payloads, MaxClock)
    \/ ContentFailed
    \/ Tick
    \/ OpenFires

SpecCycle == InitCycle /\ [][NextCycle]_vars

-----------------------------------------------------------------------------
(* The metronome: every way of starting it, with sound enabled, under a     *)
(* short timer range and under a range of one value                         *)

\* a payload that carries a BPM suggestion
SuggestedBPM == 90
Beat == Payload("content_url", "img", FALSE, FALSE, 2, 0, SuggestedBPM, FALSE)

\* the payloads the server answers with in SpecMetronome
MetronomePayloads == {LocalVideo, Beat}

InitMetronome ==
    \E app \in {LoadedAppState(TRUE),
                WithoutInterval(LoadedAppState(TRUE), FixedRange, FixedRange)} :
        Ready(app, "true")

\* Start is clicked while no content request is awaiting its response
StartIdle ==
    /\ net.content = <<>>
    /\ ClickStart

\* the settings form is saved with the range fixed, no save being in flight
SaveFixedRange ==
    /\ net.saves = <<>>
    /\ SaveSettings({FixedRange})

NextMetronome ==
    \/ StartIdle
    \/ ContentOk(MetronomePayloads, MaxClock)
    \/ ContentFailed
    \/ ClickPause
    \/ ClickReset
    \/ ToggleSound
    \/ SaveFixedRange
    \/ SaveDone({FALSE})

SpecMetronome == InitMetronome /\ [][NextMetronome]_vars

-----------------------------------------------------------------------------
(* The timer range: the settings form is saved with numbers below the       *)
(* minimum its inputs declare, which the Save button does not validate      *)

TypedNegative == 0 - 5

InitRange == Ready(LoadedAppState(TRUE), "false")

NextRange ==
    \/ SaveSettings({TypedNegative})
    \/ SaveDone({FALSE})
    \/ ClickStart
    \/ ContentOk({LocalVideo}, MaxClock)
    \/ ContentFailed
    \/ Tick

SpecRange == InitRange /\ [][NextRange]_vars

-----------------------------------------------------------------------------
(* Properties of the timer, checked under Spec *)

\* C1: whatever sequence of startTimer, resetTimer, pauseTimer, ticks, content
\* cycles, auto-cycle toggles and settings saves has run, at most one
\* countdown interval task is alive, and it is the one AppState.timer.interval
\* records.
C1_SingleCountdown ==
    /\ Cardinality(tasks.countdown) <= 1
    /\ \A h \in tasks.countdown : h = AppState.timer.interval

\* a handler has just cancelled a live countdown and started the next one
C1_Witness ==
    /\ event.cancelled
    /\ ~event.expired
    /\ Cardinality(tasks.countdown) = 1

\* C2: when the countdown reaches zero, startBrowsing is called if and only
\* if auto-cycle is enabled, however the countdown was started.
C2_ExpiryBrowsesIffAutoCycle ==
    event.expired => (event.browse <=> AppState.settings.autoCycleEnabled)

-----------------------------------------------------------------------------
(* Properties of the content pipeline, checked under SpecContent *)

\* C7: at most one /get_content request awaits its response at any time.
C7_SingleRequest == Len(net.content) <= 1

\* C8: the external window never shows content that a newer render or a timer
\* expiry has ended.
C8_NoStaleWindow == ~(extWindow.open /\ extWindow.stale)

-----------------------------------------------------------------------------
(* Properties of the history, checked under SpecHistory *)

C9_Ordered ==
    LET h == AppState.content.history
    IN /\ Len(h) <= historyMaxSize
       /\ \A i \in 1 .. Len(h) - 1 : h[i].timestamp > h[i + 1].timestamp

C9_Insert ==
    LET h == AppState.content.history
        g == AppState'.content.history
    IN g # h =>
         /\ g[1].timestamp = tasks'.clock
         /\ Len(g) = Min2(Len(h) + 1, historyMaxSize)
         /\ \A i \in 1 .. Len(g) - 1 : g[i + 1] = h[i]

\* C9: the history never holds more than 20 entries and is ordered most
\* recent first; an entry is inserted at index 0, every earlier entry moves
\* from index i to i + 1, and the 21st insertion evicts the oldest entry.
C9_BoundedHistory == []C9_Ordered /\ [][C9_Insert]_vars

\* the 21st entry has been inserted: the history is full and its oldest
\* entry is the second one ever made
C9_Witness ==
    /\ tasks.clock = historyMaxSize + 1
    /\ Len(AppState.content.history) = historyMaxSize
    /\ AppState.content.history[historyMaxSize].timestamp = 2

-----------------------------------------------------------------------------
(* Properties of the subreddit registry, checked under SpecSubs *)

DuplicateFree(list) ==
    \A i, j \in DOMAIN list :
        i # j => ToLowerCase(list[i].name) # ToLowerCase(list[j].name)

C10_NoDuplicates ==
    /\ DuplicateFree(AppState.subreddits.favorites)
    /\ DuplicateFree(AppState.subreddits.punishments)

\* addSubreddit was called for a list that holds the name in some case
C10_DuplicateAdd ==
    /\ event'.add.type \in Types
    /\ \E i \in DOMAIN AppState.subreddits[event'.add.type] :
         ToLowerCase(AppState.subreddits[event'.add.type][i].name)
             = ToLowerCase(event'.add.name)

C10_Rejects ==
    C10_DuplicateAdd
    => /\ AppState'.subreddits = AppState.subreddits
       /\ ~event'.saved
       /\ net'.saves = net.saves
       /\ localStorage' = localStorage
       /\ server' = server

\* C10: addSubreddit rejects a name that the list already holds in any case:
\* the list is left unchanged and nothing is saved; both lists stay free of
\* case-insensitive duplicates under add, toggle, remove, setAll, removeAll.
C10_RejectsDuplicates == []C10_NoDuplicates /\ [][C10_Rejects]_vars

\* "A" has just been refused for the favorites, which hold "a"
C10_Witness ==
    /\ event.add = [type |-> "favorites", name |-> <<"A">>]
    /\ event.error = "Subreddit is already in your list."
    /\ ~event.saved
    /\ \E i \in DOMAIN AppState.subreddits.favorites :
         AppState.subreddits.favorites[i].name = <<"a">>

-----------------------------------------------------------------------------
(* Properties of the settings storage, checked under SpecStorage *)

Latest(q) == q[Len(q)]

C3_Saved ==
    event'.saved =>
        /\ net'.saves # <<>>
        /\ localStorage'.goonAppSettings =
               IF localStorage.full THEN localStorage.goonAppSettings
               ELSE Json(Latest(net'.saves).body)

C3_RemoteFails ==
    (pc = "ready" /\ event'.remote = "fail") => localStorage' = localStorage

FailedRoundTrip ==
    /\ pc = "loaded"
    /\ event.remote = "fail"
    /\ lastSave.called
    /\ lastSave.remote = "fail"

Written(app) ==
    [app EXCEPT !.timerMin = OrElse(@, DefaultTimerMin),
                !.timerMax = OrElse(@, DefaultTimerMax),
                !.metronomeVolume = OrElse(@, DefaultVolume)]

C5_ContentSourcePriority ==
    pc = "loaded" =>
        LET c == event.candidates
        IN AppState.settings.contentSource =
               IF c.url \in Sources THEN c.url
               ELSE IF c.session # NULL THEN c.session
               ELSE IF c.settings # UNDEF THEN c.settings
               ELSE "reddit"

\* every field present in the settings object, the content source aside, has
\* its value in AppState
Applied(st) ==
    \A k \in (DOMAIN st \cap DOMAIN Persisted(AppState)) \ {"contentSource"} :
        Persisted(AppState)[k] = st[k]

\* C6: when loadFromStorage has completed: if the remote fetch succeeded its
\* payload is applied to AppState and is the local cache; if it failed the
\* local cache parsed before the fetch is applied; if it failed and the cache
\* was absent or malformed AppState keeps its defaults.  Violated when the
\* payload cannot be cached: it is given up.
C6_SourceSelection ==
    pc = "loaded" =>
        /\ event.remote = "ok" =>
               /\ Applied(server.settings.value)
               /\ localStorage.goonAppSettings = server.settings
        /\ (event.remote = "fail" /\ net.load.state = "json") =>
               Applied(net.load.value)
        /\ (event.remote = "fail" /\ net.load.state # "json") =>
               /\ Applied(Persisted(DefaultAppState))
               /\ event.error = "Failed to load settings"

-----------------------------------------------------------------------------
(* Properties of the selection check, checked under SpecSelection *)

NoEnabledSubreddit ==
    /\ Enabled(AppState.subreddits.favorites) = <<>>
    /\ (AppState.settings.punishmentsEnabled =>
            Enabled(AppState.subreddits.punishments) = <<>>)

Refused == ~event.requested /\ event.error # "none"

\* C11 as stated: startBrowsing issues no request and shows an error when
\* the source is reddit and no favorite and (punishments enabled) no
\* punishment subreddit is enabled, or the source is custom and no folder of
\* either kind is enabled; under custom with an enabled folder of either kind
\* the request is made.  Violated: an enabled punishment folder does not
\* count while punishments are disabled.
C11_SelectionValidated ==
    event.browse =>
        LET source == AppState.settings.contentSource
            noFolder == /\ AppState.folders.enabledContentFolders = {}
                        /\ AppState.folders.enabledPunishmentFolders = {}
        IN /\ (source = "reddit" /\ NoEnabledSubreddit) => Refused
           /\ (source = "custom" /\ noFolder) => Refused
           /\ (source = "custom" /\ ~noFolder) => event.requested

\* C11, amended: startBrowsing issues no request and shows an error exactly
\* when the source is reddit and no favorite and (punishments enabled) no
\* punishment subreddit is enabled, or the source is custom and no content
\* folder and (punishments enabled) no punishment folder is enabled; in every
\* other case the request is made.
C11_SelectionValidatedByKind ==
    event.browse =>
        LET source == AppState.settings.contentSource
            noFolder == /\ AppState.folders.enabledContentFolders = {}
                        /\ (AppState.settings.punishmentsEnabled =>
                                AppState.folders.enabledPunishmentFolders = {})
            invalid == \/ source = "reddit" /\ NoEnabledSubreddit
                       \/ source = "custom" /\ noFolder
        IN IF invalid THEN Refused /\ net.content = <<>>
           ELSE event.requested /\ event.error = "none"

\* custom source, punishments disabled, only a punishment folder enabled:
\* Start is refused
C11_Witness ==
    /\ event.browse
    /\ AppState.settings.contentSource = "custom"
    /\ ~AppState.settings.punishmentsEnabled
    /\ AppState.folders.enabledContentFolders = {}
    /\ AppState.folders.enabledPunishmentFolders = {"p"}
    /\ Refused
    /\ event.error = "Please enable at least one content folder in settings."

-----------------------------------------------------------------------------
(* Properties of the subreddit_not_found retry, checked under SpecRetry *)

\* retries that are owed: saves of a removal still awaited, and retry
\* timeouts still pending
Owed ==
    Len(SelectSeq(net.saves, LAMBDA req : req.then = "retry")) + tasks.retries

NamesOf(list) == {ToLowerCase(list[i].name) : i \in DOMAIN list}

\* a step that handles a subreddit_not_found response
NotFoundStep == Len(net'.content) < Len(net.content) /\ event'.saved

C12_Removal ==
    NotFoundStep =>
        \E s \in Names :
          /\ \A list \in {"favorites", "punishments"} :
               /\ ToLowerCase(s) \notin NamesOf(AppState'.subreddits[list])
               /\ AppState'.subreddits[list] =
                      SelectSeq(AppState.subreddits[list],
                                LAMBDA item : ToLowerCase(item.name) # ToLowerCase(s))
          /\ localStorage'.goonAppSettings.value.favorites
                 = AppState'.subreddits.favorites
          /\ Latest(net'.saves).body.punishments = AppState'.subreddits.punishments
          /\ AppState'.content = AppState.content
          /\ AppState'.timer = AppState.timer
          /\ tasks'.countdown = tasks.countdown
          /\ tasks'.metronome = tasks.metronome
          /\ Owed' = Owed + 1

C12_Retry ==
    /\ (tasks'.retries > tasks.retries) =>
           /\ tasks'.retries = tasks.retries + 1
           /\ event'.error = "Subreddit has been removed from your lists"
           /\ Owed' = Owed
    /\ (tasks'.retries < tasks.retries) =>
           /\ tasks'.retries = tasks.retries - 1
           /\ event'.browse
    /\ ~NotFoundStep =>
           Owed' = IF tasks'.retries < tasks.retries THEN Owed - 1 ELSE Owed

\* C12: on a subreddit_not_found response every entry with that name, in
\* whatever case, is removed from favorites and punishments and the lists are
\* saved; no content is displayed and no timer is started; once the save is
\* answered the notice is shown and one retry is scheduled, and each retry
\* that fires calls startBrowsing once: a response accounts for exactly one
\* retry.
C12_RemoveAndRetryOnce == [][C12_Removal /\ C12_Retry]_vars

\* the name was removed in both cases from both lists, the notice is shown
\* and one retry is pending
C12_Witness ==
    /\ AppState.subreddits.favorites = <<Item(<<"b">>, TRUE)>>
    /\ AppState.subreddits.punishments = <<>>
    /\ event.error = "Subreddit has been removed from your lists"
    /\ tasks.retries = 1
    /\ Owed = 1
    /\ AppState.content.history = <<>>
    /\ tasks.countdown = {}

-----------------------------------------------------------------------------
(* Properties of the error responses, checked under SpecContent *)

HaltMessages == {"error", "Failed to start browsing"}

\* a step that handles an error payload other than subreddit_not_found, a
\* non-2xx status or a failed request
HaltStep ==
    Len(net'.content) < Len(net.content) /\ event'.error \in HaltMessages

C13_Halt ==
    HaltStep =>
        /\ AppState'.content.history = AppState.content.history
        /\ AppState'.content.currentContent = AppState.content.currentContent
        /\ AppState'.subreddits = AppState.subreddits
        /\ AppState'.timer = AppState.timer
        /\ AppState'.metronome = AppState.metronome
        /\ tasks' = tasks
        /\ net'.saves = net.saves
        /\ Len(net'.content) = Len(net.content) - 1

\* C13: on an error payload other than subreddit_not_found, a non-2xx status
\* or a network failure of /get_content the error is shown and nothing else
\* happens: history, current content, subreddit lists and timer state are
\* unchanged, no interval task is created or cancelled, no retry is
\* scheduled and no request is issued.
C13_ErrorHalts == [][C13_Halt]_vars

\* a request failed while content was on display and a countdown was running
C13_Witness ==
    /\ event.error \in HaltMessages
    /\ ~event.requested
    /\ AppState.content.history # <<>>
    /\ tasks.countdown # {}
    /\ tasks.retries = 0

-----------------------------------------------------------------------------
(* Properties of the timer start after content, checked under SpecCycle *)

\* a step that handles a successful content response
SuccessStep ==
    /\ Len(net'.content) < Len(net.content)
    /\ event'.error = "none"
    /\ ~event'.saved

TimerStarted(seconds) ==
    /\ AppState'.timer.interval \in tasks'.countdown
    /\ Cardinality(tasks'.countdown) = 1
    /\ ~AppState'.timer.isPaused
    /\ AppState'.timer.seconds \in seconds
    /\ AppState'.timer.originalSeconds = AppState'.timer.seconds

C14_Step ==
    SuccessStep =>
        LET data == AppState'.content.currentContent
            st == AppState.settings
        IN /\ IF st.autoCycleEnabled
              THEN IF data.timer_seconds > 0
                   THEN TimerStarted({data.timer_seconds})
                   ELSE IF st.autoCycleInterval > 0
                   THEN TimerStarted({st.autoCycleInterval})
                   ELSE TimerStarted(st.timerMin .. st.timerMax)
              ELSE /\ tasks'.countdown = tasks.countdown
                   /\ AppState'.timer = AppState.timer
           /\ HasContentId(data) =>
                  /\ AppState'.content.history # <<>>
                  /\ AppState'.content.history[1].id = data.id
                  /\ Len(AppState'.content.history) =
                         Min2(Len(AppState.content.history) + 1, historyMaxSize)

\* C14: after a successful content response with auto-cycle enabled a timer
\* is started with the timer_seconds of the response if present, else the
\* auto-cycle interval if positive, else a random integer of
\* [timerMin, timerMax]; with auto-cycle disabled no timer is started.  The
\* history gains an entry keyed on the URL of the payload.
C14_TimerAfterContent == [][C14_Step]_vars

\* no timer_seconds, no interval, timerMin = timerMax: the timer starts at
\* exactly that value and the history holds the one entry of the post URL
C14_Witness ==
    /\ AppState.settings.autoCycleEnabled
    /\ AppState.settings.autoCycleInterval = Undef
    /\ AppState.settings.timerMin = FixedRange
    /\ AppState.settings.timerMax = FixedRange
    /\ AppState.content.currentContent = ExternalPage
    /\ AppState.timer.seconds = FixedRange
    /\ AppState.timer.interval \in tasks.countdown
    /\ Len(AppState.content.history) = 1
    /\ AppState.content.history[1].id = ExternalPage.id

-----------------------------------------------------------------------------
(* Properties of the metronome, checked under SpecMetronome *)

\* C15: after any sequence of startMetronome calls at most one metronome
\* interval task is alive, and it is the one AppState.metronome.interval
\* records.
C15_SingleMetronome ==
    /\ Cardinality(tasks.metronome) <= 1
    /\ \A h \in tasks.metronome : h = AppState.metronome.interval

\* the metronome was started by a content response and restarted by the
\* sound toggle
C15_Witness ==
    /\ Cardinality(tasks.metronome) = 1
    /\ AppState.content.currentContent = Beat
    /\ localStorage.soundEnabled = "false"
    /\ AppState.metronome.speed = DefaultSpeed

\* C16: in every state in which a metronome task is active,
\* AppState.metronome.speed is within [40, 120].  Violated: the speed derived
\* from a duration outside the timer range is not clamped.
C16_SpeedInRange ==
    tasks.metronome # {} =>
        /\ AppState.metronome.speed >= MinBPM
        /\ AppState.metronome.speed <= MaxBPM

-----------------------------------------------------------------------------
(* Properties of the countdown value, checked under SpecRange *)

\* C17: AppState.timer.seconds is never negative in any reachable state.
\* Violated: a timer range below zero, which saveSettings accepts, makes the
\* random duration negative.
C17_SecondsNeverNegative == AppState.timer.seconds >= 0

(* The statistics: Finish is clicked while the countdown runs, while it is  *)
(* paused and when there is none, on favorites and on punishments          *)
InitStats == Ready(LoadedAppState(TRUE), "false")

NextStats ==
    \/ ClickStart
    \/ ContentOk(Payloads, MaxClock)
    \/ ContentFailed
    \/ ClickPause
    \/ ClickFinish
    \/ SaveDone({FALSE})

SpecStats == InitStats /\ [][NextStats]_vars

\* C18: pauseTimer is a toggle. In every reachable state, calling it twice
\* with no countdown tick in between restores isPaused to its prior value and
\* leaves seconds, originalSeconds and the countdown task (the recorded
\* handle and the set of live tasks) unchanged.
C18_DoubleToggle ==
    \A rb1 \in RandomSpeeds, rb2 \in RandomSpeeds :
        LET once == pauseTimer(World, rb1)
            twice == pauseTimer(once, rb2)
        IN /\ once.AppState.timer.isPaused = ~AppState.timer.isPaused
           /\ twice.AppState.timer.isPaused = AppState.timer.isPaused
           /\ twice.AppState.timer.seconds = AppState.timer.seconds
           /\ twice.AppState.timer.originalSeconds = AppState.timer.originalSeconds
           /\ twice.AppState.timer.interval = AppState.timer.interval
           /\ twice.tasks.countdown = tasks.countdown

\* the user has paused a countdown that has already ticked
C18_Witness ==
    /\ AppState.timer.isPaused
    /\ AppState.timer.interval \in tasks.countdown
    /\ AppState.timer.seconds > 0
    /\ AppState.timer.seconds < AppState.timer.originalSeconds


\* a step of finishContent: the only handler of SpecStats that counts
FinishStep == AppState'.stats # AppState.stats

\* C19: finishContent leaves the timer paused in every state from which it is
\* called, including when the timer was already paused; it increments by
\* exactly one the punishments counter if the current content is a
\* punishment and otherwise the favorites counter, leaves the other counter
\* unchanged, and persists.
C19_FinishPausesAndCounts ==
    [][FinishStep =>
         /\ AppState'.timer.isPaused
         /\ AppState'.stats =
               IF AppState.content.isPunishment
               THEN [AppState.stats EXCEPT !.punishmentsCompletedCount = @ + 1]
               ELSE [AppState.stats EXCEPT !.favoritesCompletedCount = @ + 1]
         /\ event'.saved
         /\ lastSave'.app = Persisted(AppState')]_vars


\* the settings fields loadFromStorage merges into AppState
SettingsFields ==
    {"favorites", "punishments", "contentSource", "punishmentsEnabled",
     "autoCycleEnabled", "autoCycleInterval", "videoTimerSoftLimitEnabled",
     "theme", "timerMin", "timerMax", "soundEnabled", "metronomeVolume",
     "enabledContentFolders", "enabledPunishmentFolders",
     "redditCredentials", "stats"}

\* what AppState holds for a settings field
Held(app, f) ==
    CASE f = "favorites" -> app.subreddits.favorites
      [] f = "punishments" -> app.subreddits.punishments
      [] f = "enabledContentFolders" ->
            <<app.settings.enabledContentFolders, app.folders.enabledContentFolders>>
      [] f = "enabledPunishmentFolders" ->
            <<app.settings.enabledPunishmentFolders,
              app.folders.enabledPunishmentFolders>>
      [] f = "stats" -> app.stats
      [] OTHER -> app.settings[f]

\* a step in which loadFromStorage merges the settings it obtained
LoadStep == pc = "loading" /\ pc' = "loaded"

\* the settings object that step merges: the payload of the server if it was
\* received and cached, else the parsed local cache, else the empty object
LoadedSource ==
    ChosenSettings(event'.remote = "ok" /\ ~localStorage.full,
                   server.settings.value, net.load)

\* every field of the set that is absent from the loaded source keeps the
\* value AppState had before the load
Kept(fields) ==
    \A f \in fields :
        ~Has(LoadedSource, f) => Held(AppState', f) = Held(AppState, f)

\* C20 (as stated): loadFromStorage has partial-update semantics: for every
\* settings field that is absent from the loaded source, the AppState value
\* after the load is the value it had before the load.
C20_PartialUpdate == [][LoadStep => Kept(SettingsFields)]_vars

\* C20 (amended): the same for every settings field other than contentSource,
\* which the load always assigns from the URL parameter, the session storage
\* or the default 'reddit' when the source does not carry it.
C20_PartialUpdateExceptSource ==
    [][LoadStep => Kept(SettingsFields \ {"contentSource"})]_vars

\* a load has merged the partial cache: timerMin is taken from it, timerMax
\* and the punishments switch, which it lacks, are as before the load
C20_Witness ==
    /\ pc = "loaded"
    /\ event.remote = "fail"
    /\ localStorage.goonAppSettings = Json(CachedSettings)
    /\ AppState.settings.timerMin = CachedSettings.timerMin
    /\ AppState.settings.timerMax = DefaultAppState.settings.timerMax
    /\ AppState.settings.punishmentsEnabled

\* C21: after loadFromStorage completes, the contentSource parameter of the
\* query string, the session-storage contentSource and
\* AppState.settings.contentSource all hold the same resolved value, for
\* every initial URL parameter (absent, valid, invalid), session value and
\* loaded settings value.
C21_ResolvedEverywhere ==
    pc = "loaded" =>
        /\ location = AppState.settings.contentSource
        /\ sessionStorage.contentSource = AppState.settings.contentSource

(* The persistence: the handlers of the user that change a persisted value  *)
InitPersist == Ready(LoadedAppState(TRUE), "true")

NextPersist ==
    \/ ToggleSound
    \/ ToggleAutoCycle
    \/ ContentSourceChanged
    \/ ClickFinish
    \/ SaveSettings({})
    \/ SaveDone({FALSE})

SpecPersist == InitPersist /\ [][NextPersist]_vars

\* the persisted fields a step changes
Mutated ==
    {k \in DOMAIN Persisted(AppState) :
        Persisted(AppState')[k] # Persisted(AppState)[k]}

\* C22: every user action that mutates persisted AppState calls saveToStorage
\* within the same handler, so that after the handler the local cache
\* (goonAppSettings) reflects the mutated value.
C22_MutationsSaved ==
    [][\A k \in Mutated :
          /\ event'.saved
          /\ Has(localStorage'.goonAppSettings.value, k)
          /\ localStorage'.goonAppSettings.value[k] = Persisted(AppState')[k]]_vars

(* The credentials: a returning user whose credentials are in the remote    *)
(* store loads the page, saves the form, resets the credentials and reloads *)
ClientIds == {"", "abc"}

StoredSettings ==
    [contentSource |-> "reddit",
     redditCredentials |-> [client_id |-> "abc", client_secret |-> "abc",
                            user_agent |-> DefaultUserAgent]]

InitCredentials ==
    /\ AppState = DefaultAppState
    /\ localStorage = [goonAppSettings |-> Absent, soundEnabled |-> NULL,
                       contentSource |-> NULL, theme |-> NULL, full |-> FALSE]
    /\ server = [settings |-> Json(StoredSettings), loads |-> 0]
    /\ location = ""
    /\ sessionStorage = [contentSource |-> NULL]
    /\ pc = "boot"
    /\ FreshPage

NextCredentials ==
    \/ LoadStart
    \/ LoadDone
    \/ Initialize
    \/ FoldersDone
    \/ SaveSettingsWith({}, ClientIds)
    \/ ResetCredentials
    \/ SaveDone({FALSE})
    \/ Reload

SpecCredentials == InitCredentials /\ [][NextCredentials]_vars

\* the flat fields equal the fields of the nested object
InSync(st) ==
    /\ DOMAIN st.redditCredentials = {"client_id", "client_secret", "user_agent"}
    /\ st.redditClientId = st.redditCredentials.client_id
    /\ st.redditClientSecret = st.redditCredentials.client_secret
    /\ st.redditUserAgent = st.redditCredentials.user_agent

\* C23: the two credential shapes stay in sync: in every state reached
\* through saveSettings, loadFromStorage and resetCredentials the flat fields
\* redditClientId, redditClientSecret and redditUserAgent equal the fields
\* client_id, client_secret and user_agent of the nested redditCredentials.
C23_CredentialsInSync ==
    pc \in {"loaded", "ready"} => InSync(AppState.settings)

\* the remote write of a saveToStorage is answered with a failure (network
\* error, non-2xx status or an error field)
RemoteWriteFails == Len(net'.saves) < Len(net.saves) /\ event'.remote = "fail"

\* C24: when the remote write of saveToStorage fails, the failure is
\* surfaced to the user through the UI notifier (showError or alert); it
\* never propagates as an unhandled error (the awaiting handler goes on).
C24_RemoteFailureSurfaced ==
    [][RemoteWriteFails => event'.error # "none"]_vars

\* C25: the local cache is durable: settings written to the local cache by
\* a saveToStorage whose remote write failed are still the settings that a
\* later loadFromStorage applies to AppState, also when the remote store
\* answers that later load successfully with the older data it holds.
C25_CacheDurable ==
    (/\ pc = "loaded"
     /\ lastSave.called
     /\ lastSave.localOk
     /\ lastSave.remote = "fail") =>
        Persisted(AppState) = Written(lastSave.app)

(* The classification: the server answers with payloads that carry every    *)
(* combination of gallery images, URL fields, file name and type hint       *)
Hosted(ext) == Url("example.com", ext, <<>>)

RawPayloads ==
    {[NullContent EXCEPT !.gallery_images = gallery[1], !.is_gallery = gallery[2],
                         !.content_url = content[1], !.file_name = content[2],
                         !.post_url = post, !.url = generic, !.type = hint] :
        gallery \in {<<<<>>, FALSE>>,
                     <<<<Hosted(<<".jpg">>)>>, TRUE>>,
                     <<<<Hosted(<<".jpg">>), Hosted(<<".jpg">>)>>, FALSE>>,
                     <<<<Hosted(<<".jpg">>), Hosted(<<".jpg">>)>>, TRUE>>},
        content \in {<<<<>>, <<>>>>,
                     <<Hosted(<<".jpg">>), <<>>>>,
                     <<Hosted(<<".jpg">>), <<"x", ".jpg">>>>,
                     <<Hosted(<<".jpg">>), <<"x", ".mp4">>>>,
                     <<Hosted(<<".mp4">>), <<"x", ".txt">>>>},
        post \in {<<>>, Url("i.redd.it", <<".webp">>, <<>>),
                  Hosted(<<".mp4">>), Hosted(<<>>)},
        generic \in {<<>>, Hosted(<<".png">>), Hosted(<<>>)},
        hint \in {UNDEF, "video", "text"}}

InitClassify == Ready(LoadedAppState(FALSE), "false")

NextClassify ==
    \/ StartIdle
    \/ ContentOk(RawPayloads, MaxShown)
    \/ ContentFailed

SpecClassify == InitClassify /\ [][NextClassify]_vars

\* the payload on display and the branch that rendered it
Shown == ui.shown
OnDisplay == AppState.content.currentContent

\* the parts of the precedence that C26 and its amendment share: a gallery
\* of at least two images is an image whatever is_gallery says; post_url is
\* classified by its extension, otherwise external; a payload without any
\* recognized URL field is shown as raw text
Precedence(data) ==
    /\ Len(data.gallery_images) >= 2 => Shown = "image"
    /\ (Len(data.gallery_images) < 2 /\ data.content_url = <<>>
          /\ data.post_url # <<>>) =>
            Shown = ByExtension(data.post_url, "external")
    /\ ~HasContentId(data) /\ Len(data.gallery_images) < 2 => Shown = "json"

\* C26 (as stated): classification is a total function of the payload with
\* this precedence: gallery_images with at least 2 entries gives image
\* regardless of is_gallery; else content_url classified by image/video
\* extension; else post_url by extension, otherwise external; else a
\* generic url by extension, otherwise external; a payload with no
\* recognized URL field is shown as raw diagnostic text.
C26_Classification ==
    Shown # "none" =>
        LET data == OnDisplay
            single == Len(data.gallery_images) < 2
        IN /\ Precedence(data)
           /\ (single /\ EndsWith(data.content_url, ImageExts)) => Shown = "image"
           /\ (single /\ EndsWith(data.content_url, VideoExts)) => Shown = "video"
           /\ (single /\ data.content_url = <<>> /\ data.post_url = <<>>
                 /\ data.url # <<>>) =>
                   Shown = ByExtension(data.url, "external")

\* C26 (amended): the same precedence, with content_url classified by the
\* extension of file_name (image or video, otherwise shown as raw text), and
\* a generic url classified by its extension, otherwise by the type field
\* of the payload if it has one (shown as raw text unless it is image, video
\* or external), otherwise external.
C26_ClassificationByFileName ==
    Shown # "none" =>
        LET data == OnDisplay
            single == Len(data.gallery_images) < 2
        IN /\ Precedence(data)
           /\ (single /\ data.content_url # <<>>) =>
                 Shown = IF EndsWith(data.file_name, ImageExts) THEN "image"
                         ELSE IF EndsWith(data.file_name, VideoExts) THEN "video"
                         ELSE "json"
           /\ (single /\ data.content_url = <<>> /\ data.post_url = <<>>
                 /\ data.url # <<>>) =>
                   Shown = IF EndsWith(data.url, ImageExts \cup VideoExts)
                           THEN ByExtension(data.url, "external")
                           ELSE IF data.type = UNDEF THEN "external"
                           ELSE IF data.type = "video" THEN "video"
                           ELSE "json"

\* two gallery images without the is_gallery flag are on display as an image
C26_Witness ==
    /\ Len(OnDisplay.gallery_images) = 2
    /\ ~OnDisplay.is_gallery
    /\ OnDisplay.post_url = <<>>
    /\ Shown = "image"

\* the payload {post_url: 'https://i.redd.it/x.webp'} is on display
WebpOnDisplay ==
    /\ Shown # "none"
    /\ OnDisplay = [NullContent EXCEPT
                      !.post_url = <<"https://", "i.redd.it", "/x", ".webp">>]

\* C29 (as stated): for the payload {post_url: 'https://i.redd.it/x.webp'}
\* the content is classified as image and the URL assigned to the displayed
\* image has host i.redd.it and ends in '.jpg'.
C29_WebpShownAsJpg ==
    WebpOnDisplay =>
        /\ Shown = "image"
        /\ ui.src[2] = "i.redd.it"
        /\ EndsWith(ui.src, {".jpg"})

\* C29 (amended): for that payload the content is classified as image and
\* the URL assigned to the displayed image is
\* 'https://i.redd.it/x.jpg?bypass=cors': host i.redd.it, a path that ends in
\* '.jpg', and the query string '?bypass=cors' after it.
C29_WebpShownAsJpgWithQuery ==
    WebpOnDisplay =>
        /\ Shown = "image"
        /\ ui.src = <<"https://", "i.redd.it", "/x", ".jpg", "?", "bypass=cors">>

C29_Witness == WebpOnDisplay /\ ui.src # <<>>

-----------------------------------------------------------------------------
(* The subreddit normalizer: names typed as r/name, as URLs, with special   *)
(* characters, or without any word character                                *)

Foo == <<"f", "o", "o">>

NameInputs ==
    {<<"r", "/">> \o Foo,
     RedditUrl \o Foo,
     <<"h", "t", "t", "p", "s", ":", "/", "/", "w", "w", "w", ".">>
         \o RedditUrl \o Foo \o <<"/">>,
     <<" ", "a", "-", "b", "_", "1">>,
     <<"R", "/", "a">>,
     <<"r", "/">>, <<"-", "/">>, <<" ">>}

InitNames == Ready(LoadedAppState(FALSE), "false")

NextNames ==
    \/ AddSubredditFrom(NameInputs)
    \/ RemoveSubreddit
    \/ SaveDone({FALSE})

SpecNames == InitNames /\ [][NextNames]_vars

Clean(name) == \A i \in DOMAIN name : name[i] \in WordChars

InvalidName == "Invalid subreddit name. Please enter a valid subreddit name or URL."

\* the normalizer on the inputs, and the names that reached the lists
C27_Clean ==
    /\ \A input \in NameInputs : Clean(extractSubredditName(input))
    /\ extractSubredditName(<<"r", "/">> \o Foo) = Foo
    /\ extractSubredditName(RedditUrl \o Foo) = Foo
    /\ \A type \in Types : \A i \in DOMAIN AppState.subreddits[type] :
         /\ Clean(AppState.subreddits[type][i].name)
         /\ AppState.subreddits[type][i].name # <<>>

\* a step of addSubreddit that found the normalized name empty
C27_EmptyRejected ==
    event'.error = InvalidName
    => /\ AppState'.subreddits = AppState.subreddits
       /\ ~event'.saved
       /\ net'.saves = net.saves
       /\ localStorage' = localStorage

\* C27: for every input, extractSubredditName returns a string containing
\* only characters of [A-Za-z0-9_]; the inputs 'r/foo' and 'reddit.com/r/foo'
\* both yield 'foo'; addSubreddit rejects an input whose normalized name is
\* empty without changing the list.
C27_Normalizer == []C27_Clean /\ [][C27_EmptyRejected]_vars

\* 'foo' is in the favorites, and an input without word characters has just
\* been refused
C27_Witness ==
    /\ event.error = InvalidName
    /\ \E i \in DOMAIN AppState.subreddits.favorites :
         AppState.subreddits.favorites[i].name = Foo

-----------------------------------------------------------------------------
(* The metronome sound: ticks of the running metronome while the user       *)
(* browses, pauses and toggles the sound                                    *)

InitSound == \E sound \in {"true", "false"} : Ready(LoadedAppState(TRUE), sound)

NextSound ==
    \/ StartIdle
    \/ ContentOk({LocalVideo}, MaxClock)
    \/ ClickPause
    \/ ToggleSound
    \/ MetronomeTick

SpecSound == InitSound /\ [][NextSound]_vars

GlobalSound == localStorage.soundEnabled # "false"

\* C28: on every metronome tick the audio cue is played only if the global
\* sound flag (localStorage soundEnabled) is on and the metronome's own flag
\* (AppState.settings.soundEnabled) is on and the timer is not paused; with
\* the global flag off no tick ever plays audio regardless of the other flag.
C28_TickGated ==
    [][/\ event'.played =>
            /\ GlobalSound
            /\ AppState.settings.soundEnabled # FALSE
            /\ ~AppState.timer.isPaused
       /\ ~GlobalSound => ~event'.played]_vars

\* a tick has just played the cue
C28_Witness ==
    /\ event.played
    /\ tasks.metronome # {}
    /\ GlobalSound
    /\ ~AppState.timer.isPaused

\* a metronome runs unpaused with the global flag off and its own flag on
C28_GlobalOff ==
    /\ tasks.metronome # {}
    /\ ~GlobalSound
    /\ AppState.settings.soundEnabled = TRUE
    /\ ~AppState.timer.isPaused

-----------------------------------------------------------------------------
(* Overlapping content requests: the user skips while a request is in       *)
(* flight and the responses arrive in any order                             *)

\* the payloads the server answers with in SpecStale
StalePayloads == {ExternalPage, CdnImage, LocalVideo}

InitStale == Ready(LoadedAppState(FALSE), "false")

NextStale ==
    \/ ClickStart
    \/ ContentOutOfOrder(StalePayloads, MaxClock)
    \/ ContentFailed

SpecStale == InitStale /\ [][NextStale]_vars

\* a step that handles the response to a request issued before one that has
\* already been answered with content
StaleStep == event'.stale

\* C30: there is no guard against stale responses: the response to a request
\* that was overtaken by the response to a later request is displayed like
\* any other, and is left as AppState.content.currentContent and at history
\* position 0.
C30_StaleInstalled ==
    [][StaleStep =>
          /\ AppState'.content.history # <<>>
          /\ AppState'.content.history[1] =
                 HistoryEntry(AppState'.content.currentContent, tasks'.clock)
          /\ tasks'.clock = tasks.clock + 1
          /\ Len(AppState'.content.history) = Len(AppState.content.history) + 1
          /\ ui'.shown = Renderer(ContentType(AppState'.content.currentContent))]_vars

\* two requests overlapped, the later one was answered with the video first,
\* and the external page that answers the earlier one is the current content
\* and history[0], above the entry of the video
C30_Witness ==
    /\ event.stale
    /\ AppState.content.currentContent = ExternalPage
    /\ Len(AppState.content.history) = 2
    /\ AppState.content.history[1].id = ExternalPage.id
    /\ AppState.content.history[2].id = LocalVideo.id
    /\ AppState.content.history[2].timestamp < AppState.content.history[1].timestamp

-----------------------------------------------------------------------------
(* The countdown: content with and without a timer suggestion is shown      *)
(* with auto-cycle on, the external window opens, the user pauses and       *)
(* resumes, and the countdown ticks until it runs out                       *)

InitCountdown == Ready(LoadedAppState(TRUE), "false")

NextCountdown ==
    \/ StartIdle
    \/ ContentOk(Payloads, MaxClock)
    \/ Tick
    \/ ClickPause
    \/ OpenFires

SpecCountdown == InitCountdown /\ [][NextCountdown]_vars

\* the step is a run of the countdown callback of task h
TickOf(h) == World' = countdown(Begin(World), h)

Tracked == AppState.content.redditWindow # NULL /\ extWindow.open

\* a live countdown has between 1 and originalSeconds seconds left
C31_Remaining ==
    tasks.countdown # {} =>
        /\ AppState.timer.seconds >= 1
        /\ AppState.timer.seconds <= AppState.timer.originalSeconds

C31_Tick ==
    \A h \in tasks.countdown :
        TickOf(h) =>
            IF AppState.timer.isPaused
            THEN UNCHANGED <<AppState, tasks, net, extWindow, localStorage, ui>>
            ELSE IF AppState.timer.seconds > 1
            THEN /\ AppState'.timer.seconds = AppState.timer.seconds - 1
                 /\ AppState'.timer.originalSeconds = AppState.timer.originalSeconds
                 /\ ~event'.expired /\ ~event'.browse
                 /\ UNCHANGED <<tasks, net, extWindow>>
            ELSE /\ AppState'.timer.seconds = 0
                 /\ event'.expired
                 /\ h \notin tasks'.countdown
                 /\ tasks'.countdown = {}
                 /\ AppState'.timer.interval = NoHandle
                 /\ Tracked => ~extWindow'.open /\ AppState'.content.redditWindow = NULL
                 /\ event'.browse
                 /\ Len(net'.content) <= Len(net.content) + 1
                 /\ event'.requested <=> Len(net'.content) = Len(net.content) + 1

\* C31: a countdown started with n seconds that is not reset, restarted or
\* extended reaches zero after exactly n ticks that occur while not paused:
\* a tick while paused changes nothing, a tick while running takes one
\* second off, and a live countdown always has between 1 and n seconds left;
\* on reaching zero its task is cancelled, any tracked external window is
\* closed, and startBrowsing is invoked exactly once for that countdown.
C31_CountdownRunsOut == []C31_Remaining /\ [][C31_Tick]_vars

\* a countdown started with the two seconds of the auto-cycle interval for
\* the external page has run out and asked for new content
C31_Witness ==
    /\ event.expired
    /\ event.requested
    /\ AppState.content.currentContent = ExternalPage
    /\ AppState.timer.originalSeconds = ShortMax
    /\ AppState.timer.seconds = 0
    /\ tasks.countdown = {}
    /\ ~extWindow.open

\* the external window is open and tracked one second before the countdown
\* runs out
C31_WindowOpen ==
    /\ Tracked
    /\ tasks.countdown # {}
    /\ ~AppState.timer.isPaused
    /\ AppState.timer.seconds = 1

-----------------------------------------------------------------------------
(* The derived metronome speed: with sound enabled the user saves timer     *)
(* ranges and resets the timer                                              *)

RangeValues == {ShortMin, ShortMax, WideMax}

InitSpeed == Ready(LoadedAppState(FALSE), "true")

\* the settings form is saved with a timer range, no save being in flight
SaveRange ==
    /\ net.saves = <<>>
    /\ SaveSettings(RangeValues)

NextSpeed ==
    \/ ClickReset
    \/ SaveRange
    \/ SaveDone({FALSE})

SpecSpeed == InitSpeed /\ [][NextSpeed]_vars

\* the range the settings hold, as the timer code reads it
RangeMin == ParseIntOr(AppState.settings.timerMin, DefaultTimerMin)
RangeMax == ParseIntOr(AppState.settings.timerMax, DefaultTimerMax)

\* the BPM of the metronome that startTimer(d) starts in the current state
SpeedFor(d) == startTimer(Begin(World), d, d, MinBPM).AppState.metronome.speed

-----------------------------------------------------------------------------
(* The random duration, checked under SpecSpeed *)

\* what startTimer treats as no duration: undefined, NaN, zero, a negative
InvalidSeconds == {Undef, NotANumber, 0, TypedNegative}

\* the durations that startTimer without a valid duration and resetTimer
\* with a new time choose in the current state
Chosen ==
    {startTimer(Begin(World), s, rs, MinBPM).AppState.timer.originalSeconds :
        s \in InvalidSeconds, rs \in Durations(World)}
    \cup {resetTimer(Begin(World), TRUE, rs, MinBPM).AppState.timer.seconds :
             rs \in Durations(World)}

\* C33: the duration that startTimer chooses for an absent or invalid seconds
\* argument, and the one resetTimer chooses as a new time, is an integer
\* within [timerMin, timerMax] of the current settings.
C33_WithinRange ==
    pc = "ready" =>
        \A d \in Chosen :
            AppState.settings.timerMin <= d /\ d <= AppState.settings.timerMax

-----------------------------------------------------------------------------
(* The gallery viewer's keyboard listener, checked under SpecGallery *)

Gallery == Payload("url", "img", TRUE, TRUE, 3, 0, 0, FALSE)

\* the payloads the server answers with in SpecGallery
GalleryPayloads == {Gallery, CdnImage, LocalVideo}

InitGallery == Ready(LoadedAppState(FALSE), "false")

NextGallery ==
    \/ StartIdle
    \/ ContentOk(GalleryPayloads, MaxRenders)
    \/ ContentFailed

SpecGallery == InitGallery /\ [][NextGallery]_vars

\* the handler that rendered a gallery in this step
GalleryStep == \E data \in GalleryPayloads :
    /\ IsGallery(data)
    /\ AppState'.content.currentContent = data
    /\ tasks'.clock = tasks.clock + 1

\* C34: after any sequence of content renders at most one gallery keydown
\* listener is registered on the document, the one that the last gallery
\* render recorded; a gallery render registers a new listener and removes the
\* one of the previous gallery render, and any other render leaves the
\* registered listener alone.
C34_OneListener ==
    /\ Cardinality(ui.keydown) <= 1
    /\ \A h \in ui.keydown :
          h = AppState.content.previousGalleryKeyboardListener

C34_Replaced ==
    IF GalleryStep
    THEN /\ Cardinality(ui'.keydown) = 1
         /\ ui'.keydown \cap ui.keydown = {}
    ELSE ui'.keydown = ui.keydown

C34_SingleKeydownListener == []C34_OneListener /\ [][C34_Replaced]_vars

\* three renders, two of them galleries and the last one a gallery: the
\* listener of the first gallery is gone and the second one's is the only one
C34_Witness ==
    /\ ui.keydown = {2}
    /\ IsGallery(AppState.content.currentContent)
    /\ Len(AppState.content.history) = 3

-----------------------------------------------------------------------------
(* The video soft limit, checked under SpecVideo *)

\* video.duration in half seconds (0.5, 1.5, 2, 3.5 seconds), and Infinity,
\* the duration of an unbounded stream
VideoDurations == {1, 3, 4, 7, PosInfinity}

\* the payloads the server answers with in SpecVideo
VideoPayloads == {LocalVideo, CdnImage}

InitVideo ==
    \E soft \in BOOLEAN, autoCycle \in BOOLEAN :
        Ready([LoadedAppState(autoCycle) EXCEPT
                  !.settings.videoTimerSoftLimitEnabled = soft], "false")

NextVideo ==
    \/ StartIdle
    \/ ContentOk(VideoPayloads, MaxClock)
    \/ Tick
    \/ ClickPause
    \/ VideoMetadata(VideoDurations)

SpecVideo == InitVideo /\ [][NextVideo]_vars

\* the step is the loadedmetadata handler run for a video of duration d
MetadataOf(d) ==
    ui.metadataPending /\ World' = videoMetadata(Begin(World), d)

\* C35: when the metadata of the displayed video load with the soft limit
\* enabled and the whole seconds of the duration exceed the remaining seconds
\* of the timer (remaining > 0), timer.seconds and timer.originalSeconds both
\* become that duration; otherwise the timer is unchanged.  The handler never
\* shortens the timer and never creates or cancels a countdown task.
C35_Metadata ==
    \A d \in VideoDurations : MetadataOf(d) =>
        LET videoDuration == MathFloor(d)
            remaining == AppState.timer.seconds
        IN /\ IF /\ AppState.settings.videoTimerSoftLimitEnabled
                 /\ remaining > 0
                 /\ videoDuration > remaining
              THEN /\ AppState'.timer.seconds = videoDuration
                   /\ AppState'.timer.originalSeconds = videoDuration
              ELSE /\ AppState'.timer.seconds = remaining
                   /\ AppState'.timer.originalSeconds =
                          AppState.timer.originalSeconds
           /\ AppState'.timer.seconds >= remaining
           /\ AppState'.timer.interval = AppState.timer.interval
           /\ AppState'.timer.isPaused = AppState.timer.isPaused
           /\ UNCHANGED tasks

-----------------------------------------------------------------------------
(* The folder lists, checked under SpecFolders *)

\* the folders were discovered, none is enabled yet
InitFolders ==
    Ready([LoadedAppState(FALSE) EXCEPT
              !.folders.content = {"f", "g"}, !.folders.punishment = {"p"}],
          "false")

NextFolders ==
    \/ RefreshFolders
    \/ FoldersAnswered
    \/ ToggleFolder
    \/ SetAllFolders
    \/ SaveDone({FALSE})

SpecFolders == InitFolders /\ [][NextFolders]_vars

\* C36: in every reachable state after folder discovery the enabled folders
\* are discovered folders: enabledContentFolders is a subset of
\* folders.content and enabledPunishmentFolders of folders.punishment.
C36_EnabledAreDiscovered ==
    /\ AppState.folders.enabledContentFolders \subseteq AppState.folders.content
    /\ AppState.folders.enabledPunishmentFolders
           \subseteq AppState.folders.punishment

-----------------------------------------------------------------------------
(* The loading flag, checked under SpecHistory *)

\* C37: AppState.content.isLoading is true only while a content request is
\* in flight: once the cycle has ended, by a display, a validation failure or
\* an error, it is false.
C37_LoadingOnlyInFlight ==
    AppState.content.isLoading => net.content # <<>>

-----------------------------------------------------------------------------
(* Pause and resume, checked under SpecCountdown *)

\* the step is pauseTimer
PauseOf(rb) == World' = pauseTimer(Begin(World), rb)

\* C38: pausing and resuming the timer leaves the metronome as it was: neither
\* call of pauseTimer changes the BPM, cancels or replaces a metronome task,
\* or creates one when none was active.
C38_MetronomeKept ==
    \A rb \in RandomSpeeds : PauseOf(rb) =>
        /\ AppState'.metronome = AppState.metronome
        /\ tasks'.metronome = tasks.metronome

C38_PauseResumeKeepsMetronome == [][C38_MetronomeKept]_vars

-----------------------------------------------------------------------------
(* The sound toggle and the running metronome, checked under SpecSound *)

\* the step is the click handler of the sound toggle
ToggleOf(rb) == World' = soundToggled(Begin(World), Undef, rb)

\* C39: toggling the sound flag while a metronome is running changes only the
\* two sound flags, which stay equal: AppState.metronome.speed is what it was
\* and exactly one metronome task remains active.
C39_SpeedKept ==
    \A rb \in RandomSpeeds :
        (tasks.metronome # {} /\ ToggleOf(rb)) =>
            /\ localStorage'.soundEnabled = Bool(AppState'.settings.soundEnabled)
            /\ AppState'.metronome.speed = AppState.metronome.speed
            /\ Cardinality(tasks'.metronome) = 1

C39_ToggleKeepsMetronome == [][C39_SpeedKept]_vars

-----------------------------------------------------------------------------
(* The result of saveToStorage, checked under SpecStorage *)

\* the step answers save request i and resolves its saveToStorage call
Resolves(i) ==
    /\ net'.saves = Remove(net.saves, i)
    /\ event'.resolved # "none"

\* C40: saveToStorage resolves to true only if the settings were written to
\* the local cache or to the remote store, and to false when both writes
\* failed.
C40_Result ==
    \A i \in DOMAIN net.saves : Resolves(i) =>
        (event'.resolved = "true"
            <=> (net.saves[i].localOk \/ event'.remote = "ok"))

C40_TrueOnlyIfWritten == [][C40_Result]_vars

=============================================================================
